---------------------------- MODULE Spec2Model ----------------------------
(***************************************************************************)
(* Model of the DCT audio codec of IC-First_Assignment:                    *)
(*   src/bit_stream/src/wav_dct_enc.cpp  (encoder, main)                   *)
(*   src/bit_stream/src/wav_dct_dec.cpp  (decoder, main)                   *)
(* and of the BitStream class both programs use (bit_stream.h, which is    *)
(* not among the sources: it is modelled from section 4.1 of the           *)
(* specification).                                                         *)
(*                                                                         *)
(* Numbers.  TLC has 32-bit integers and no reals.  A double of the codec  *)
(* (sample/32768, a DCT coefficient, a scale factor) is an integer count   *)
(* of units of 2^-18 (ONE = 2^18 stands for 1.0), in the coefficient       *)
(* domain and in the output of the inverse transform alike.  Quantisation  *)
(* and dequantisation are computed exactly on these integers (rational     *)
(* arithmetic, rounding half away from zero as round() does); the cast     *)
(* (float)maxCoeff keeps 24 significant bits, ties to even, as IEEE-754    *)
(* single precision does.  The transforms of FFTW (REDFT10, REDFT01) are   *)
(* evaluated from their defining sums with a 14-bit cosine table, so a     *)
(* transform value carries a small fixed-point error; rounding errors of   *)
(* double arithmetic itself (2^-53) are not modelled.                      *)
(***************************************************************************)
EXTENDS Integers, Sequences, FiniteSets, TLC

VARIABLES
    mode,   \* which program is running: "run" (wav_dct_enc, wav_dct_dec),
            \* "quant", "bits", "wire" (wav_quant_enc, wav_quant_dec), "cmp",
            \* "scalar", "fx", "hist"
    enc,    \* wav_dct_enc: the state of main
    dec,    \* wav_dct_dec: the state of main
    qz,     \* the quantise / serialise / dequantise path of one block
    chan,   \* a BitStream written, closed and read back
    qenc,   \* wav_quant_enc: the state of main
    qdec,   \* wav_quant_dec: the state of main
    cmp,    \* wav_cmp: the state of main and of its WAVComparator
    sq,     \* the scalar quantiser functions applied to one sample or level
    fx,     \* wav_effects: an AudioEffects object and the call made on it
    hist    \* wav_hist: a WAVHist object

vars == <<mode, enc, dec, qz, chan, qenc, qdec, cmp, sq, fx, hist>>

---------------------------------------------------------------------------
(* Integer helpers *)

Abs(x) == IF x < 0 THEN -x ELSE x

Min(a, b) == IF a < b THEN a ELSE b

\* the greatest common divisor of two naturals, not both zero
RECURSIVE GCD(_, _)
GCD(a, b) == IF b = 0 THEN a ELSE GCD(b, a % b)

Max(a, b) == IF a > b THEN a ELSE b

Pow2(n) == 2 ^ n

\* ceil(a / b) for a >= 0, b > 0
CeilDiv(a, b) == (a + b - 1) \div b

\* round(a / b) as C's round(): to nearest, halves away from zero (b > 0);
\* written without doubling a
RoundDiv(a, b) ==
    IF a >= 0 THEN (a + b \div 2) \div b ELSE -(((-a) + b \div 2) \div b)

\* a * b / 2^14 for a 14-bit fixed-point factor b, to the nearest unit, split
\* so that no product leaves 32 bits
MulFx(a, b) ==
    LET x  == Abs(a)
        y  == Abs(b)
        t  == (x \div 512) * y + ((x % 512) * y) \div 512
        r  == (t + 16) \div 32
    IN  IF (a < 0) = (b < 0) THEN r ELSE -r

\* a * 2^14 / b for a 14-bit fixed-point divisor b > 0, to the nearest unit,
\* split likewise
DivFx(a, b) ==
    LET x == Abs(a)
        r == (x \div b) * 16384 + ((x % b) * 16384 + b \div 2) \div b
    IN  IF a < 0 THEN -r ELSE r

\* floor(sqrt(x)) by bisection, lo * lo <= x < hi * hi
RECURSIVE ISqrt(_, _, _)
ISqrt(x, lo, hi) ==
    IF hi - lo <= 1 THEN lo
    ELSE LET mid == (lo + hi) \div 2
         IN  IF mid * mid <= x THEN ISqrt(x, mid, hi) ELSE ISqrt(x, lo, mid)

\* the number of significant bits of v >= 0 (0 for v = 0)
BitLen(v) ==
    CHOOSE n \in 0..31 :
        \/ n = 0 /\ v = 0
        \/ n > 0 /\ Pow2(n - 1) <= v /\ (n = 31 \/ v < Pow2(n))

\* f[lo] + ... + f[hi], summed by halves (the sums of the transforms have up
\* to blockSize terms)
RECURSIVE SumRange(_, _, _)
SumRange(f, lo, hi) ==
    IF lo > hi THEN 0
    ELSE IF lo = hi THEN f[lo]
    ELSE LET mid == (lo + hi) \div 2
         IN  SumRange(f, lo, mid) + SumRange(f, mid + 1, hi)

Replicate(n, x) == [i \in 1..n |-> x]

---------------------------------------------------------------------------
(* BitStream (bit_stream.h), modelled from section 4.1 of the specification: *)
(* write_n_bits appends the n least significant bits of a value, most        *)
(* significant first, buffering a partial byte; close pads the partial byte  *)
(* with zero bits; read_n_bits consumes the next n bits, most significant    *)
(* first; reading past the end of the byte source is an error.               *)

\* bit p (0 = least significant) of the 64-bit two's complement pattern of v
RECURSIVE BitOf(_, _)
BitOf(v, p) ==
    IF v < 0 THEN 1 - BitOf(-v - 1, p)
    ELSE IF p >= 31 THEN 0
    ELSE (v \div Pow2(p)) % 2

\* a BitStream opened with STREAM_WRITE on an empty file: the bytes handed to
\* the file, and the bits of the partial byte not yet handed over
NewWriter == [bytes |-> <<>>, pend |-> <<>>, closed |-> FALSE]

\* the byte made of bits b[at+1..at+8], most significant first
ByteOf(b, at) ==
    128 * b[at + 1] + 64 * b[at + 2] + 32 * b[at + 3] + 16 * b[at + 4]
      + 8 * b[at + 5] + 4 * b[at + 6] + 2 * b[at + 7] + b[at + 8]

\* the bits appended to the writer: every completed byte goes to the file
PutBits(bs, b) ==
    LET all == bs.pend \o b
        nb  == Len(all) \div 8
    IN  [bs EXCEPT !.bytes = @ \o [j \in 1..nb |-> ByteOf(all, 8 * (j - 1))],
                   !.pend = SubSeq(all, 8 * nb + 1, Len(all))]

write_n_bits(bs, v, n) == PutBits(bs, [i \in 1..n |-> BitOf(v, n - i)])

\* close() that hands over whole bytes only: the partial byte is dropped
CloseNoPad(bs) == [bs EXCEPT !.pend = <<>>, !.closed = TRUE]

\* close() of a writer: the partial byte is padded with zero bits
close_writer(bs) ==
    [PutBits(bs, [i \in 1..((8 - Len(bs.pend)) % 8) |-> 0]) EXCEPT !.closed = TRUE]

\* a BitStream opened with STREAM_READ on a file of the given bytes
NewReader(bytes) == [bytes |-> bytes, pos |-> 0]

BitsLeft(bs) == 8 * Len(bs.bytes) - bs.pos

\* a read that is always allowed
CanReadAlways(bs, n) == TRUE

\* whether a read of n bits stays inside the byte source
CanRead(bs, n) == n <= BitsLeft(bs)

\* bit pos (from 0) of the byte source; every read is guarded by CanRead, and
\* a position past the end holds no data (0)
BitAt(bytes, pos) ==
    IF (pos \div 8) + 1 > Len(bytes) THEN 0
    ELSE (bytes[(pos \div 8) + 1] \div Pow2(7 - (pos % 8))) % 2

\* the next n bits, most significant first
read_bits(bs, n) == [i \in 1..n |-> BitAt(bs.bytes, bs.pos + i - 1)]

\* the reader after a read of n bits
Advance(bs, n) == [bs EXCEPT !.pos = @ + n]

\* the unsigned value of a bit sequence (most significant first); bits of
\* weight 2^31 and above must be zero, TLC's integers ending there
BitsToNat(b) ==
    LET n == Len(b)
    IN  SumRange([i \in 1..n |-> IF b[i] = 0 THEN 0 ELSE Pow2(n - i)], 1, n)

\* read_n_bits(n) as an unsigned integer
read_n_bits(bs, n) == BitsToNat(read_bits(bs, n))

\* the value of a bit sequence converted to a signed integer of its width
\* (int samplerate = read_n_bits(32); sf_count_t frames = read_n_bits(64))
AsSigned(b) ==
    IF b # <<>> /\ Head(b) = 1
    THEN -(BitsToNat([i \in 1..Len(b) |-> 1 - b[i]]) + 1)
    ELSE BitsToNat(b)

---------------------------------------------------------------------------
(* Doubles and floats.  ONE is 1.0 in the unit of the coefficient domain.  *)

ONE == Pow2(18)

\* samples[i] / 32768.0 (encoder) and * 32768.0 (decoder)
FullScale == 32768

SampleMax == 32767

SampleMin == -32768

\* (float)x for x >= 0: 24 significant bits, ties to even
ToFloat(v) ==
    LET n == BitLen(v)
    IN  IF n <= 24 THEN v
        ELSE LET q  == Pow2(n - 24)
                 lo == (v \div q) * q
                 r  == v - lo
             IN  IF 2 * r < q THEN lo
                 ELSE IF 2 * r > q THEN lo + q
                 ELSE IF (lo \div q) % 2 = 0 THEN lo ELSE lo + q

\* memcpy(&maxBits, &maxCoeffFloat, 4): the IEEE-754 pattern of a float f >= 0
\* (sign 0, 8 exponent bits biased by 127, 23 fraction bits)
FloatPattern(f) ==
    IF f = 0 THEN 0
    ELSE LET n    == BitLen(f)
             top  == Pow2(n - 1)
             frac == IF n - 1 <= 23 THEN (f - top) * Pow2(24 - n)
                     ELSE (f - top) \div Pow2(n - 24)
         IN  (n + 108) * Pow2(23) + frac

\* memcpy(&maxCoeffFloat, &maxBits, 4); (double)maxCoeffFloat: the value of a
\* finite pattern (b: 32 bits, most significant first); values below one unit
\* are cut to the unit grid
FloatValue(b) ==
    LET e   == BitsToNat(SubSeq(b, 2, 9))
        m   == BitsToNat(SubSeq(b, 10, 32))
        mag == IF e = 0 THEN 0
               ELSE IF e >= 132 THEN (Pow2(23) + m) * Pow2(e - 132)
               ELSE IF 132 - e > 24 THEN 0
               ELSE (Pow2(23) + m) \div Pow2(132 - e)
    IN  IF b[1] = 1 THEN -mag ELSE mag

---------------------------------------------------------------------------
(* Quantisation (wav_dct_enc.cpp) and dequantisation (wav_dct_dec.cpp) *)

\* int maxLevel = 1 << quantBits, one too many
MaxLevelPow(quantBits) == Pow2(quantBits)

\* int maxLevel = (1 << quantBits) - 1
MaxLevelOf(quantBits) == Pow2(quantBits) - 1

\* the loop without fabs: the largest signed coefficient, starting from 0.0
MaxSignedCoeff(coeffs, numCoeffs) ==
    LET m == { coeffs[i] : i \in 1..numCoeffs }
    IN  CHOOSE x \in m \cup {0} : \A y \in m \cup {0} : y <= x

\* the loop started at the second coefficient
MaxAbsFromSecond(coeffs, numCoeffs) ==
    LET m == { Abs(coeffs[i]) : i \in 2..numCoeffs }
    IN  CHOOSE x \in m \cup {0} : \A y \in m : y <= x

\* the loop over the first numCoeffs coefficients, starting from 0.0
MaxAbsCoeff(coeffs, numCoeffs) ==
    LET m == { Abs(coeffs[i]) : i \in 1..numCoeffs }
    IN  CHOOSE x \in m \cup {0} : \A y \in m : y <= x

\* if (maxCoeff < 1e-10) maxCoeff = 1.0: the only grid value below 1e-10 is 0
AvoidZero(maxCoeff) == IF maxCoeff <= 0 THEN ONE ELSE maxCoeff

\* round(a * l / (2 * m)), halves away from zero, for 0 <= l < 2^16 and
\* m > 0: a long division of |a| * l by 2 * m over the four hexadecimal
\* digits of l, so that no product leaves 32 bits
RoundMulDiv(a, l, m) ==
    LET x  == Abs(a)
        d  == 2 * m
        n3 == x * (l \div 4096)
        n2 == (n3 % d) * 16 + x * ((l \div 256) % 16)
        n1 == (n2 % d) * 16 + x * ((l \div 16) % 16)
        n0 == (n1 % d) * 16 + x * (l % 16)
        q  == (((n3 \div d) * 16 + n2 \div d) * 16 + n1 \div d) * 16 + n0 \div d
        r  == IF n0 % d >= m THEN q + 1 ELSE q
    IN  IF a >= 0 THEN r ELSE -r

\* the level of a zero coefficient taken as maxLevel / 2 cut to a whole number
QuantLevelCut(c, maxCoeff, maxLevel) ==
    LET level == ((c + maxCoeff) * maxLevel) \div (2 * maxCoeff)
    IN  IF level < 0 THEN 0 ELSE IF level > maxLevel THEN maxLevel ELSE level

\* level = (int)round((c / maxCoeff + 1.0) * maxLevel / 2.0), then the clamp
QuantLevel(c, maxCoeff, maxLevel) ==
    LET level == RoundMulDiv(c + maxCoeff, maxLevel, maxCoeff)
    IN  IF level < 0 THEN 0 ELSE IF level > maxLevel THEN maxLevel ELSE level

\* normalized = level / maxLevel, the levels mapped to [0, 1]
DequantNumUnsigned(level, maxCoeff, maxLevel) == level * maxCoeff

\* normalized * maxCoeff with normalized = level * 2.0 / maxLevel - 1.0, as the
\* numerator of a fraction over maxLevel
DequantNum(level, maxCoeff, maxLevel) == (2 * level - maxLevel) * maxCoeff

\* the dequantised coefficient on the unit grid
Dequant(level, maxCoeff, maxLevel) ==
    RoundDiv(DequantNum(level, maxCoeff, maxLevel), maxLevel)

---------------------------------------------------------------------------
(* The transforms of FFTW: REDFT10 (DCT-II) and REDFT01 (DCT-III), from    *)
(* their definitions                                                       *)
(*   Y[k] = 2 * sum_{j<n} X[j] cos(pi (j + 1/2) k / n)                     *)
(*   Y[k] = X[0] + 2 * sum_{1<=j<n} X[j] cos(pi j (k + 1/2) / n)           *)

\* cos(pi * m / 256) * 2^14 for m = 0..128
CosTab ==
   << 16384, 16383, 16379, 16373, 16364, 16353, 16340, 16324, 16305, 16284,
      16261, 16235, 16207, 16176, 16143, 16107, 16069, 16029, 15986, 15941,
      15893, 15843, 15791, 15736, 15679, 15619, 15557, 15493, 15426, 15357,
      15286, 15213, 15137, 15059, 14978, 14896, 14811, 14724, 14635, 14543,
      14449, 14354, 14256, 14155, 14053, 13949, 13842, 13733, 13623, 13510,
      13395, 13279, 13160, 13039, 12916, 12792, 12665, 12537, 12406, 12274,
      12140, 12004, 11866, 11727, 11585, 11442, 11297, 11151, 11003, 10853,
      10702, 10549, 10394, 10238, 10080, 9921, 9760, 9598, 9434, 9269,
      9102, 8935, 8765, 8595, 8423, 8250, 8076, 7900, 7723, 7545,
      7366, 7186, 7005, 6823, 6639, 6455, 6270, 6084, 5897, 5708,
      5520, 5330, 5139, 4948, 4756, 4563, 4370, 4176, 3981, 3786,
      3590, 3393, 3196, 2999, 2801, 2603, 2404, 2205, 2006, 1806,
      1606, 1406, 1205, 1005, 804, 603, 402, 201, 0 >>

\* cos(pi * t / (2 n)) * 2^14 for 0 <= t <= n (a quarter wave); the table
\* serves the angles that are multiples of pi / 256 (every angle of a block
\* size dividing 128), and t = 0 and t = n for any block size; no other angle
\* has a value
QuarterCos(n, t) ==
    IF t = 0 THEN 16384
    ELSE IF t = n THEN 0
    ELSE CosTab[IF (t * 128) % n = 0 THEN (t * 128) \div n + 1 ELSE 0]

\* cos(pi * m / (2 n)) * 2^14 for any m >= 0
CosFx(n, m) ==
    LET r == m % (4 * n)
        h == IF r > 2 * n THEN 4 * n - r ELSE r
    IN  IF h <= n THEN QuarterCos(n, h) ELSE -QuarterCos(n, 2 * n - h)

\* sqrt(a / n) * 2^14
SqrtFx(a, n) == ISqrt((a * Pow2(28)) \div n, 0, 46341)

\* fftw_execute(dctPlan) followed by the normalisation of the encoder, for
\* the coefficients the encoder goes on to read (the first numCoeffs):
\* dctCoeffs[0] *= sqrt(1.0 / blockSize); dctCoeffs[k] *= sqrt(2.0 / blockSize)
ForwardDct(audioBlock, blockSize, numCoeffs) ==
    [k \in 1..numCoeffs |->
        LET raw == 2 * SumRange(
                     [j \in 1..blockSize |->
                        IF audioBlock[j] = 0 THEN 0
                        ELSE MulFx(audioBlock[j],
                                   CosFx(blockSize, (2 * j - 1) * (k - 1)))],
                     1, blockSize)
        IN  IF raw = 0 THEN 0
            ELSE IF k = 1 THEN MulFx(raw, SqrtFx(1, blockSize))
            ELSE MulFx(raw, SqrtFx(2, blockSize))]

\* the decoder's denormalisation: dctCoeffs[0] /= sqrt(1.0 / blockSize);
\* dctCoeffs[i] /= sqrt(2.0 / blockSize) for 1 <= i < numCoeffs
Unscale(dctCoeffs, blockSize, numCoeffs) ==
    [i \in 1..blockSize |->
        IF dctCoeffs[i] = 0 THEN 0
        ELSE IF i = 1 THEN DivFx(dctCoeffs[i], SqrtFx(1, blockSize))
        ELSE IF i <= numCoeffs THEN DivFx(dctCoeffs[i], SqrtFx(2, blockSize))
        ELSE dctCoeffs[i]]

\* the index of the last non-zero entry (0 when all are zero): the terms
\* beyond it contribute exactly zero to every sum
LastNonZero(x) ==
    LET nz == { i \in 1..Len(x) : x[i] # 0 }
    IN  IF nz = {} THEN 0 ELSE CHOOSE i \in nz : \A j \in nz : j <= i

\* fftw_execute(idctPlan): audioBlock from dctCoeffs
InverseDct(dctCoeffs, blockSize) ==
    LET hi == LastNonZero(dctCoeffs)
    IN  [k \in 1..blockSize |->
            IF hi = 0 THEN 0
            ELSE dctCoeffs[1] + 2 * SumRange(
                   [j \in 1..hi |->
                      IF j = 1 \/ dctCoeffs[j] = 0 THEN 0
                      ELSE MulFx(dctCoeffs[j],
                                 CosFx(blockSize, (j - 1) * (2 * k - 1)))],
                   1, hi)]

\* the conversion with idctScale = blockSize, the factor 2 of the transform
\* pair left out
SampleDenHalf(blockSize) == blockSize * (ONE \div FullScale)

\* double sample = (audioBlock[i] / idctScale) * 32768.0 with idctScale =
\* 2.0 * blockSize: the fraction y * 32768 / (2 * blockSize * ONE), that is
\* y / SampleDen
SampleDen(blockSize) == 2 * blockSize * (ONE \div FullScale)

\* the sample rounded and stored in 16 bits with no clamp: the low 16 bits
\* of round(sample)
ClampRoundWrap(num, den) == ((RoundDiv(num, den) + 32768) % 65536) - 32768

\* if (sample > 32767.0) sample = 32767.0; if (sample < -32768.0) sample =
\* -32768.0; samples[i] = (short)round(sample)
ClampRound(num, den) ==
    IF num > SampleMax * den THEN SampleMax
    ELSE IF num < SampleMin * den THEN SampleMin
    ELSE RoundDiv(num, den)

\* the 16-bit sample the decoder stores for the inverse transform's output y
ToSample(y, blockSize) == ClampRound(y, SampleDen(blockSize))

---------------------------------------------------------------------------
(* wav_dct_enc: main *)

\* the limits of the command line options and of the header fields
MinBlockSize == 64

MaxBlockSize == 8192

MinQuantBits == 4

MaxQuantBits == 16

MinSampleRate == 1000

MaxSampleRate == 192000

\* the defaults of the encoder's options
DefaultBlockSize == 1024

DefaultFracNum == 1

DefaultFracDen == 5

DefaultQuantBits == 8

\* frame j (from 1) of the input signals the model encodes
Signal(kind, j) ==
    CASE kind = "zero" -> 0
      [] kind = "min"  -> SampleMin
      [] kind = "alt"  -> IF j % 2 = 1 THEN 12000 ELSE -12000
      [] OTHER         -> IF j = 3 THEN 20000 ELSE 0

\* the option checks of the argument loop: -bs, -frac, -qbits
BadBlockSize(blockSize) == blockSize < MinBlockSize \/ blockSize > MaxBlockSize

\* a keep fraction checked without its lower limit
BadFractionUpperOnly(num, den) == num > den

BadFraction(num, den) == num <= 0 \/ num > den

BadQuantBits(quantBits) == quantBits < MinQuantBits \/ quantBits > MaxQuantBits

\* a channel count tested for being at least 1
BadChannelsBelowOne(channels) == channels < 1

\* line 96: if (sfhIn.channels() != 1)
BadChannels(channels) == channels # 1

\* whether n is a power of two (n >= 1)
IsPow2(n) == \E e \in 0..30 : n = Pow2(e)

\* the product rounded to the nearest whole number instead of cut
ProductRounded(blockSize, num, den) ==
    {(2 * blockSize * num + den) \div (2 * den)}

\* line 104: the values (size_t)(blockSize * keepFraction) can take for the
\* keep fraction num / den.  The product of the doubles is cut toward zero;
\* where blockSize * num / den is a whole number m and num / den is not a
\* double exactly, the product is m or the double just below m, which is cut
\* to m - 1
ProductValues(blockSize, num, den) ==
    LET n == (blockSize * num) \div den
    IN  IF (blockSize * num) % den = 0 /\ ~IsPow2(den) /\ n >= 1
        THEN {n - 1, n}
        ELSE {n}

\* the count lowered to blockSize only
ClampUpperOnly(n, blockSize) == IF n > blockSize THEN blockSize ELSE n

\* lines 105-106: if (numCoeffs < 1) numCoeffs = 1; if (numCoeffs >
\* blockSize) numCoeffs = blockSize
ClampCoeffs(n, blockSize) ==
    IF n < 1 THEN 1 ELSE IF n > blockSize THEN blockSize ELSE n

\* size_t numCoeffs = (size_t)(blockSize * keepFraction), raised to 1 and
\* lowered to blockSize, for a product that is exact
NumCoeffsOf(blockSize, num, den) ==
    ClampCoeffs((blockSize * num) \div den, blockSize)

\* the header: samplerate(32), frames(64), blockSize(16), numCoeffs(16),
\* quantBits(8)
WriteHeader(bs, samplerate, frames, blockSize, numCoeffs, quantBits) ==
    write_n_bits(
      write_n_bits(
        write_n_bits(
          write_n_bits(
            write_n_bits(bs, samplerate, 32),
            frames, 64),
          blockSize, 16),
        numCoeffs, 16),
      quantBits, 8)

HeaderLog ==
    << <<"samplerate", 32>>, <<"frames", 64>>, <<"blockSize", 16>>,
       <<"numCoeffs", 16>>, <<"quantBits", 8>> >>

\* the levels of one block: for each retained coefficient in turn
BlockLevels(dctCoeffs, numCoeffs, maxCoeff, maxLevel) ==
    [i \in 1..numCoeffs |-> QuantLevel(dctCoeffs[i], maxCoeff, maxLevel)]

\* every level written as a whole byte
WriteLevelsBytes(bs, levels, quantBits) ==
    PutBits(bs, [p \in 1..(Len(levels) * 8) |->
                   BitOf(levels[((p - 1) \div 8) + 1], 7 - ((p - 1) % 8))])

\* bs.write_n_bits(level, quantBits) for every level of a block, in order
WriteLevels(bs, levels, quantBits) ==
    PutBits(bs, [p \in 1..(Len(levels) * quantBits) |->
                   BitOf(levels[((p - 1) \div quantBits) + 1],
                         quantBits - 1 - ((p - 1) % quantBits))])

\* what main has done when it stops, as the model's initial values
EncStart(a, f) ==
    [pc |-> "args", blockSize |-> a.blockSize, fracNum |-> a.fracNum,
     fracDen |-> a.fracDen, quantBits |-> a.quantBits, haveFiles |-> a.haveFiles,
     inFile |-> f, outOk |-> a.outOk,
     opened |-> FALSE, samplerate |-> 0, frames |-> 0, numCoeffs |-> 0,
     created |-> FALSE, bs |-> NewWriter, nread |-> 0,
     samples |-> <<>>, audioBlock |-> <<>>, dctCoeffs |-> <<>>,
     maxCoeff |-> 0, levels |-> <<>>, totalBlocks |-> 0, wlog |-> <<>>, err |-> "none"]

\* lines 37-75: the argument loop and the check of the file names
EncParseArgs ==
    /\ mode = "run" /\ enc.pc = "args"
    /\ enc' = IF BadBlockSize(enc.blockSize)
              THEN [enc EXCEPT !.pc = "fatal", !.err = "blockSize"]
              ELSE IF BadFraction(enc.fracNum, enc.fracDen)
              THEN [enc EXCEPT !.pc = "fatal", !.err = "fraction"]
              ELSE IF BadQuantBits(enc.quantBits)
              THEN [enc EXCEPT !.pc = "fatal", !.err = "quantBits"]
              ELSE IF ~enc.haveFiles
              THEN [enc EXCEPT !.pc = "fatal", !.err = "files"]
              ELSE [enc EXCEPT !.pc = "open"]
    /\ UNCHANGED <<mode, dec, qz, chan, qenc, qdec, cmp, sq, fx, hist>>

\* lines 77-106: the input is opened and validated, the header values are set
EncOpenInput ==
    /\ mode = "run" /\ enc.pc = "open"
    /\ \E n \in ProductValues(enc.blockSize, enc.fracNum, enc.fracDen) :
         enc' = IF ~enc.inFile.ok
                THEN [enc EXCEPT !.pc = "fatal", !.err = "open"]
                ELSE IF ~enc.inFile.wav
                THEN [enc EXCEPT !.pc = "fatal", !.err = "format", !.opened = TRUE]
                ELSE IF ~enc.inFile.pcm16
                THEN [enc EXCEPT !.pc = "fatal", !.err = "subformat", !.opened = TRUE]
                ELSE IF BadChannels(enc.inFile.channels)
                THEN [enc EXCEPT !.pc = "fatal", !.err = "channels", !.opened = TRUE]
                ELSE [enc EXCEPT !.pc = "create",
                                 !.opened = TRUE,
                                 !.samplerate = enc.inFile.samplerate,
                                 !.frames = enc.inFile.frames,
                                 !.numCoeffs = ClampCoeffs(n, enc.blockSize)]
    /\ UNCHANGED <<mode, dec, qz, chan, qenc, qdec, cmp, sq, fx, hist>>

\* lines 123-156: the output file is created, the header written, the buffers
\* allocated (vector<short> samples(blockSize) holds zeros)
EncWriteHeader ==
    /\ mode = "run" /\ enc.pc = "create"
    /\ enc' = IF ~enc.outOk
              THEN [enc EXCEPT !.pc = "fatal", !.err = "create"]
              ELSE [enc EXCEPT
                      !.pc = "loop",
                      !.created = TRUE,
                      !.bs = WriteHeader(NewWriter, enc.samplerate, enc.frames,
                                         enc.blockSize, enc.numCoeffs,
                                         enc.quantBits),
                      !.wlog = HeaderLog,
                      !.samples = Replicate(enc.blockSize, 0)]
    /\ UNCHANGED <<mode, dec, qz, chan, qenc, qdec, cmp, sq, fx, hist>>

\* the buffer after readf alone: the entries readf did not reach keep what
\* the block before left in them
ReadBlockNoPad(old, kind, at, nRead, blockSize) ==
    [i \in 1..blockSize |-> IF i <= nRead THEN Signal(kind, at + i) ELSE old[i]]

\* lines 159-167: the buffer `samples` after readf has stored the nRead
\* frames that follow frame `at` and the rest of a short block is set to 0
ReadBlock(old, kind, at, nRead, blockSize) ==
    [i \in 1..blockSize |->
        IF i <= nRead THEN Signal(kind, at + i)
        ELSE IF nRead < blockSize THEN 0
        ELSE old[i]]

\* a scale factor that never falls: the largest magnitude of this block and
\* of the blocks before it
RunningMax(previous, dctCoeffs, numCoeffs) ==
    Max(previous, MaxAbsCoeff(dctCoeffs, numCoeffs))

\* lines 185-189: double maxCoeff = 0.0 in every pass of the loop, then the
\* largest magnitude of the retained coefficients of this block
BlockMax(previous, dctCoeffs, numCoeffs) == MaxAbsCoeff(dctCoeffs, numCoeffs)

\* lines 158-222: one pass of the block loop that reads nRead > 0 frames
EncBlock ==
    /\ mode = "run" /\ enc.pc = "loop"
    /\ enc.nread < enc.frames
    /\ LET nRead      == Min(enc.blockSize, enc.frames - enc.nread)
           samples    == ReadBlock(enc.samples, enc.inFile.kind, enc.nread,
                                    nRead, enc.blockSize)
           audioBlock == [i \in 1..enc.blockSize |->
                            samples[i] * (ONE \div FullScale)]
           dctCoeffs  == ForwardDct(audioBlock, enc.blockSize, enc.numCoeffs)
           maxCoeff   == AvoidZero(BlockMax(enc.maxCoeff, dctCoeffs, enc.numCoeffs))
           maxLevel   == MaxLevelOf(enc.quantBits)
           levels     == BlockLevels(dctCoeffs, enc.numCoeffs, maxCoeff, maxLevel)
       IN  enc' = [enc EXCEPT
                     !.nread = @ + nRead,
                     !.samples = samples,
                     !.audioBlock = audioBlock,
                     !.dctCoeffs = dctCoeffs,
                     !.maxCoeff = maxCoeff,
                     !.levels = levels,
                     !.bs = WriteLevels(
                              write_n_bits(@, FloatPattern(ToFloat(maxCoeff)), 32),
                              levels, enc.quantBits),
                     !.wlog = @ \o << <<"scale", 32>> >>
                                \o Replicate(enc.numCoeffs, <<"level", enc.quantBits>>),
                     !.totalBlocks = @ + 1]
    /\ UNCHANGED <<mode, dec, qz, chan, qenc, qdec, cmp, sq, fx, hist>>

\* the end of the loop without bs.close()
EncFinishNoClose ==
    /\ mode = "run" /\ enc.pc = "loop"
    /\ enc.nread >= enc.frames
    /\ enc' = [enc EXCEPT !.pc = "done"]
    /\ UNCHANGED <<mode, dec, qz, chan, qenc, qdec, cmp, sq, fx, hist>>

\* lines 159-160, 224-250: readf returns 0, the loop ends, the channel and
\* the file are closed
EncFinish ==
    /\ mode = "run" /\ enc.pc = "loop"
    /\ enc.nread >= enc.frames
    /\ enc' = [enc EXCEPT !.pc = "done", !.bs = close_writer(@),
                          !.wlog = Append(@, <<"close", 0>>)]
    /\ UNCHANGED <<mode, dec, qz, chan, qenc, qdec, cmp, sq, fx, hist>>

---------------------------------------------------------------------------
(* wav_dct_dec: main *)

HeaderBits == 32 + 64 + 16 + 16 + 8

\* the header read with the frame count taken as a field of 32 bits
ReadHeaderNarrow(bs) ==
    LET b == read_bits(bs, HeaderBits)
    IN  [samplerate |-> AsSigned(SubSeq(b, 1, 32)),
         frames     |-> AsSigned(SubSeq(b, 33, 64)),
         blockSize  |-> BitsToNat(SubSeq(b, 65, 80)),
         numCoeffs  |-> BitsToNat(SubSeq(b, 81, 96)),
         quantBits  |-> BitsToNat(SubSeq(b, 97, 104))]

\* lines 57-61: int samplerate, sf_count_t frames, size_t blockSize, size_t
\* numCoeffs, int quantBits, read in this order from the next 136 bits
ReadHeader(bs) ==
    LET b == read_bits(bs, HeaderBits)
    IN  [samplerate |-> AsSigned(SubSeq(b, 1, 32)),
         frames     |-> AsSigned(SubSeq(b, 33, 96)),
         blockSize  |-> BitsToNat(SubSeq(b, 97, 112)),
         numCoeffs  |-> BitsToNat(SubSeq(b, 113, 128)),
         quantBits  |-> BitsToNat(SubSeq(b, 129, 136))]

\* lines 63-82: the first check of the header that fails ("none": all pass)
HeaderError(h) ==
    IF h.samplerate < MinSampleRate \/ h.samplerate > MaxSampleRate THEN "samplerate"
    ELSE IF h.blockSize < MinBlockSize \/ h.blockSize > MaxBlockSize THEN "blockSize"
    ELSE IF h.numCoeffs < 1 \/ h.numCoeffs > h.blockSize THEN "numCoeffs"
    ELSE IF h.quantBits < MinQuantBits \/ h.quantBits > MaxQuantBits THEN "quantBits"
    ELSE "none"

\* the bits of one block record: the scale factor and numCoeffs levels
RecordBits(numCoeffs, quantBits) == 32 + numCoeffs * quantBits

\* lines 126-145: the record at the reader's position: the scale factor and
\* the levels, each read with read_n_bits(quantBits)
ReadRecord(bs, numCoeffs, quantBits) ==
    [maxCoeff |-> FloatValue(read_bits(bs, 32)),
     levels   |-> [i \in 1..numCoeffs |->
                     read_n_bits(Advance(bs, 32 + (i - 1) * quantBits), quantBits)]]

\* lines 131-145: dctCoeffs zeroed, then the first numCoeffs entries
\* dequantised
DequantBlock(rec, blockSize, numCoeffs, maxLevel) ==
    [i \in 1..blockSize |->
        IF i <= numCoeffs THEN Dequant(rec.levels[i], rec.maxCoeff, maxLevel) ELSE 0]

\* size_t framesToWrite without the test against the frames that remain
FramesToWriteWhole(blockSize, framesProcessed, frames) == blockSize

\* lines 163-166: size_t framesToWrite
FramesToWrite(blockSize, framesProcessed, frames) ==
    IF framesProcessed + blockSize > frames THEN frames - framesProcessed
    ELSE blockSize

DecStart(src, file, cut, outOk) ==
    [pc |-> "start", src |-> src, file |-> file, cut |-> cut, outOk |-> outOk,
     bs |-> NewReader(<<>>),
     samplerate |-> 0, frames |-> 0, blockSize |-> 0, numCoeffs |-> 0,
     quantBits |-> 0, maxLevel |-> 0,
     created |-> FALSE, outChannels |-> 0, outRate |-> 0, out |-> <<>>,
     maxCoeff |-> 0, levels |-> <<>>, dctCoeffs |-> <<>>, audioBlock |-> <<>>,
     samples |-> <<>>, recon |-> <<>>,
     totalBlocks |-> 0, framesProcessed |-> 0, emitted |-> <<>>,
     err |-> "none"]

\* the file the decoder is given: the encoder's output, or that output with
\* its last bytes missing, or a file made by other means
InputBytes ==
    IF dec.src = "encoder"
    THEN SubSeq(enc.bs.bytes, 1, Max(0, Len(enc.bs.bytes) - dec.cut))
    ELSE dec.file

\* lines 46-54: the input is opened and the BitStream created
DecOpenInput ==
    /\ mode = "run" /\ dec.pc = "start"
    /\ dec.src = "encoder" => enc.pc = "done"
    /\ dec' = [dec EXCEPT !.pc = "header", !.bs = NewReader(InputBytes)]
    /\ UNCHANGED <<mode, enc, qz, chan, qenc, qdec, cmp, sq, fx, hist>>

\* lines 56-61: the header is read; a read past the end of the file is the
\* channel's error
DecReadHeader ==
    /\ mode = "run" /\ dec.pc = "header"
    /\ dec' = IF ~CanRead(dec.bs, HeaderBits)
              THEN [dec EXCEPT !.pc = "fatal", !.err = "truncated"]
              ELSE LET h == ReadHeader(dec.bs)
                   IN  [dec EXCEPT !.pc = "validate",
                                   !.bs = Advance(@, HeaderBits),
                                   !.samplerate = h.samplerate,
                                   !.frames = h.frames,
                                   !.blockSize = h.blockSize,
                                   !.numCoeffs = h.numCoeffs,
                                   !.quantBits = h.quantBits]
    /\ UNCHANGED <<mode, enc, qz, chan, qenc, qdec, cmp, sq, fx, hist>>

\* lines 63-82: the header is validated
DecValidate ==
    /\ mode = "run" /\ dec.pc = "validate"
    /\ LET e == HeaderError(dec)
       IN  dec' = IF e # "none" THEN [dec EXCEPT !.pc = "fatal", !.err = e]
                  ELSE [dec EXCEPT !.pc = "output"]
    /\ UNCHANGED <<mode, enc, qz, chan, qenc, qdec, cmp, sq, fx, hist>>

\* lines 99-122: the output file is created (mono, samplerate), the buffers
\* allocated (vector<short> samples(blockSize) holds zeros)
DecOpenOutput ==
    /\ mode = "run" /\ dec.pc = "output"
    /\ dec' = IF ~dec.outOk
              THEN [dec EXCEPT !.pc = "fatal", !.err = "create"]
              ELSE [dec EXCEPT !.pc = "loop", !.created = TRUE,
                               !.outChannels = 1,
                               !.outRate = dec.samplerate,
                               !.samples = Replicate(dec.blockSize, 0),
                               !.maxLevel = MaxLevelOf(dec.quantBits)]
    /\ UNCHANGED <<mode, enc, qz, chan, qenc, qdec, cmp, sq, fx, hist>>

\* lines 124-188: one pass of the block loop
DecBlock ==
    /\ mode = "run" /\ dec.pc = "loop"
    /\ dec.framesProcessed < dec.frames
    /\ dec' =
         IF ~CanRead(dec.bs, RecordBits(dec.numCoeffs, dec.quantBits))
         THEN [dec EXCEPT !.pc = "fatal", !.err = "truncated"]
         ELSE
           LET rec  == ReadRecord(dec.bs, dec.numCoeffs, dec.quantBits)
               dq   == DequantBlock(rec, dec.blockSize, dec.numCoeffs, dec.maxLevel)
               y    == InverseDct(Unscale(dq, dec.blockSize, dec.numCoeffs),
                                  dec.blockSize)
               n    == FramesToWrite(dec.blockSize, dec.framesProcessed, dec.frames)
               smp  == [i \in 1..dec.blockSize |->
                          IF i <= n THEN ToSample(y[i], dec.blockSize)
                          ELSE dec.samples[i]]
           IN  [dec EXCEPT
                  !.bs = Advance(@, RecordBits(dec.numCoeffs, dec.quantBits)),
                  !.maxCoeff = rec.maxCoeff,
                  !.levels = rec.levels,
                  !.dctCoeffs = dq,
                  !.audioBlock = y,
                  !.samples = smp,
                  !.recon = [i \in 1..n |-> y[i]],
                  !.out = @ \o SubSeq(smp, 1, n),
                  !.framesProcessed = @ + n,
                  !.totalBlocks = @ + 1,
                  !.emitted = Append(@, n)]
    /\ UNCHANGED <<mode, enc, qz, chan, qenc, qdec, cmp, sq, fx, hist>>

\* lines 124, 190-205: the loop ends, the channel and the file are closed,
\* main returns 0
DecFinish ==
    /\ mode = "run" /\ dec.pc = "loop"
    /\ dec.framesProcessed >= dec.frames
    /\ dec' = [dec EXCEPT !.pc = "done"]
    /\ UNCHANGED <<mode, enc, qz, chan, qenc, qdec, cmp, sq, fx, hist>>

---------------------------------------------------------------------------
(* The runs the model explores: an input encoded and the result decoded     *)
(* (whole, or with bytes missing at its end), and files made by other means *)
(* given to the decoder.                                                    *)

\* the longest input, in blocks
MaxBlocks == 3

\* the most bytes missing at the end of a file
MaxCut == 2

BaseArgs ==
    [blockSize |-> MinBlockSize, fracNum |-> 1, fracDen |-> 1,
     quantBits |-> MinQuantBits, haveFiles |-> TRUE, outOk |-> TRUE]

BaseFile ==
    [ok |-> TRUE, wav |-> TRUE, pcm16 |-> TRUE, channels |-> 1,
     samplerate |-> 44100, frames |-> 0, kind |-> "zero"]

FrameCounts(n) == {0, 1, n, n + 1, MaxBlocks * n - 42}

Fractions == { <<1, 1000>>, <<1, 32>>, <<1, 1>> }

\* runs of the minimum block size, every sample and coefficient computed
CodecRuns ==
    { << [BaseArgs EXCEPT !.fracNum = fr[1], !.fracDen = fr[2], !.quantBits = q],
         [BaseFile EXCEPT !.frames = f, !.kind = k],
         c >> :
        fr \in Fractions, q \in {4, 8}, f \in FrameCounts(MinBlockSize),
        k \in {"zero", "min", "alt"}, c \in {0} }

\* runs whose output has bytes missing
CutRuns ==
    { << [BaseArgs EXCEPT !.fracNum = fr[1], !.fracDen = fr[2]],
         [BaseFile EXCEPT !.frames = f, !.kind = "alt"],
         c >> :
        fr \in Fractions, f \in FrameCounts(MinBlockSize), c \in 1..MaxCut }

\* runs of the default block size: one coefficient kept, or no frame at all
DefaultRuns ==
    { << [BaseArgs EXCEPT !.blockSize = DefaultBlockSize, !.fracNum = 1,
                          !.fracDen = 1000, !.quantBits = DefaultQuantBits],
         [BaseFile EXCEPT !.frames = f, !.kind = "alt"], 0 >> : f \in {0, 2500} }
    \cup
    { << [BaseArgs EXCEPT !.blockSize = bsz, !.fracNum = DefaultFracNum,
                          !.fracDen = DefaultFracDen, !.quantBits = q],
         [BaseFile EXCEPT !.samplerate = sr], 0 >> :
        bsz \in {DefaultBlockSize, MaxBlockSize},
        q \in {DefaultQuantBits, MaxQuantBits},
        sr \in {MinSampleRate - 1, MinSampleRate, 44100, MaxSampleRate,
                MaxSampleRate + 1} }

\* runs with one option or one property of the input out of range
ErrorRuns ==
    { << [BaseArgs EXCEPT !.blockSize = bsz], [BaseFile EXCEPT !.frames = 65], 0 >> :
        bsz \in {0, MinBlockSize - 1, MaxBlockSize + 1, 65536} }
    \cup
    { << [BaseArgs EXCEPT !.fracNum = fr[1], !.fracDen = fr[2]],
         [BaseFile EXCEPT !.frames = 65], 0 >> :
        fr \in { <<0, 1>>, <<-1, 5>>, <<1001, 1000>>, <<2, 1>> } }
    \cup
    { << [BaseArgs EXCEPT !.quantBits = q], [BaseFile EXCEPT !.frames = 65], 0 >> :
        q \in {-1, 0, MinQuantBits - 1, MaxQuantBits + 1} }
    \cup
    { << [BaseArgs EXCEPT !.blockSize = 0, !.fracNum = 0, !.quantBits = 0],
         [BaseFile EXCEPT !.frames = 65], 0 >>,
      << [BaseArgs EXCEPT !.haveFiles = FALSE], BaseFile, 0 >>,
      << [BaseArgs EXCEPT !.outOk = FALSE], [BaseFile EXCEPT !.frames = 65], 0 >>,
      << BaseArgs, [BaseFile EXCEPT !.ok = FALSE], 0 >>,
      << BaseArgs, [BaseFile EXCEPT !.wav = FALSE], 0 >>,
      << BaseArgs, [BaseFile EXCEPT !.pcm16 = FALSE], 0 >>,
      << BaseArgs, [BaseFile EXCEPT !.channels = 2, !.frames = 65], 0 >> }

\* empty inputs encoded with block sizes and keep fractions over their ranges
CoeffBlockSizes == {MinBlockSize, 100, 1000, DefaultBlockSize, 4096,
                    MaxBlockSize - 1, MaxBlockSize}

CoeffFractions ==
    { <<1, 10000>>, <<1, 8192>>, <<1, 100>>, <<29, 100>>, <<1, 3>>, <<1, 2>>,
      <<9999, 10000>>, <<1, 1>> }

CoeffRuns ==
    { << [BaseArgs EXCEPT !.blockSize = bsz, !.fracNum = fr[1], !.fracDen = fr[2],
                          !.quantBits = DefaultQuantBits],
         BaseFile, 0 >> :
        bsz \in CoeffBlockSizes, fr \in CoeffFractions }

\* inputs of more than one channel, with the options at their defaults and at
\* their least values
MultiChannelRuns ==
    { << [BaseArgs EXCEPT !.blockSize = bsz, !.quantBits = q],
         [BaseFile EXCEPT !.channels = c, !.frames = f, !.kind = "alt"], 0 >> :
        bsz \in {MinBlockSize, DefaultBlockSize},
        q \in {MinQuantBits, DefaultQuantBits},
        c \in {2, 6}, f \in {0, 65} }

\* silent inputs of two blocks encoded with every bit depth, all the
\* coefficients kept, or two of them
SilentRuns ==
    { << [BaseArgs EXCEPT !.quantBits = q],
         [BaseFile EXCEPT !.frames = MinBlockSize + 1], 0 >> :
        q \in MinQuantBits..MaxQuantBits }
    \cup
    { << [BaseArgs EXCEPT !.quantBits = q, !.fracNum = 1, !.fracDen = 32],
         [BaseFile EXCEPT !.frames = 1], 0 >> :
        q \in {MinQuantBits, MaxQuantBits} }

EncodeRuns ==
    CodecRuns \cup CutRuns \cup DefaultRuns \cup ErrorRuns \cup CoeffRuns
      \cup MultiChannelRuns \cup SilentRuns

\* the IEEE-754 patterns of 1.0, 2.0, 0.0 and -1.0 (the last as the 32-bit
\* two's complement number with the same bits)
CraftedScales == { FloatPattern(ONE), FloatPattern(2 * ONE), 0,
                   FloatPattern(ONE) - Pow2(30) - Pow2(30) }

\* a file made by other means: a header, then nblocks records with one scale
\* factor and one level throughout
CraftFile(c) ==
    LET hdr == WriteHeader(NewWriter, c.samplerate, c.frames, c.blockSize,
                           c.numCoeffs, c.quantBits)
        rec == [i \in 1..(32 + c.numCoeffs * c.quantBits) |->
                  IF i <= 32 THEN BitOf(c.scale, 32 - i)
                  ELSE BitOf(c.level, c.quantBits - 1 - ((i - 33) % c.quantBits))]
        RECURSIVE Put(_, _)
        Put(bs, n) == IF n = 0 THEN bs ELSE Put(PutBits(bs, rec), n - 1)
    IN  close_writer(Put(hdr, c.nblocks)).bytes

BaseHeader ==
    [samplerate |-> 44100, frames |-> 65, blockSize |-> MinBlockSize,
     numCoeffs |-> 2, quantBits |-> MinQuantBits, scale |-> FloatPattern(ONE),
     level |-> 0, nblocks |-> 2, outOk |-> TRUE]

\* headers with one field out of its range, followed by the records a
\* decoder that went on would read
BadHeaders ==
    { [BaseHeader EXCEPT !.samplerate = v] :
        v \in {-1, 0, MinSampleRate - 1, MaxSampleRate + 1} }
    \cup { [BaseHeader EXCEPT !.frames = -1] }
    \cup { [BaseHeader EXCEPT !.blockSize = v] :
             v \in {0, MinBlockSize - 1, MaxBlockSize + 1, 65535} }
    \cup { [BaseHeader EXCEPT !.numCoeffs = v] : v \in {0, MinBlockSize + 1} }
    \cup { [BaseHeader EXCEPT !.quantBits = v] :
             v \in {0, MinQuantBits - 1, MaxQuantBits + 1, 255} }

\* headers at the limits of the ranges, with no frame
EdgeHeaders ==
    { [BaseHeader EXCEPT !.samplerate = sr, !.blockSize = bsz, !.numCoeffs = k,
                         !.quantBits = q, !.frames = 0, !.nblocks = 0] :
        sr \in {MinSampleRate, MaxSampleRate},
        bsz \in {MinBlockSize, MaxBlockSize},
        k \in {1, MinBlockSize}, q \in {MinQuantBits, MaxQuantBits} }
    \cup { [BaseHeader EXCEPT !.outOk = FALSE] }

\* the levels of the records: the lowest, the two middle ones, the highest
CraftedLevel(q, i) ==
    CASE i = 0 -> 0
      [] i = 1 -> Pow2(q - 1) - 1
      [] i = 2 -> Pow2(q - 1)
      [] OTHER -> Pow2(q) - 1

\* valid headers followed by records of every scale and level, complete or
\* one record short
BlockFiles ==
    { [BaseHeader EXCEPT !.frames = f, !.numCoeffs = k, !.quantBits = q,
                         !.scale = sc, !.level = CraftedLevel(q, lv),
                         !.nblocks = CeilDiv(f, MinBlockSize) - short] :
        f \in {1, MinBlockSize + 1}, k \in {1, 2, MinBlockSize}, q \in {4, 8},
        sc \in CraftedScales, short \in {0, 1},
        lv \in 0..3 }

CraftedFiles == BadHeaders \cup EdgeHeaders \cup BlockFiles

IdleEnc == [EncStart(BaseArgs, BaseFile) EXCEPT !.pc = "idle"]

IdleDec == [DecStart("none", <<>>, 0, TRUE) EXCEPT !.pc = "idle"]

IdleQz == [pc |-> "idle"]

IdleChan ==
    [pc |-> "idle", pairs |-> <<>>, written |-> 0, w |-> NewWriter,
     r |-> NewReader(<<>>), got |-> <<>>]

IdleQenc == [pc |-> "idle"]

IdleQdec == [pc |-> "idle"]

IdleCmp == [pc |-> "idle"]

IdleSq == [pc |-> "idle"]

IdleFx == [pc |-> "idle"]

IdleHist == [pc |-> "idle"]

RestIdle == sq = IdleSq /\ fx = IdleFx /\ hist = IdleHist

\* the programs that do not run
OthersIdle == qenc = IdleQenc /\ qdec = IdleQdec /\ cmp = IdleCmp /\ RestIdle

Init ==
    /\ mode = "run"
    /\ qz = IdleQz
    /\ chan = IdleChan
    /\ OthersIdle
    /\ \/ \E r \in EncodeRuns :
             /\ enc = EncStart(r[1], r[2])
             /\ dec = DecStart("encoder", <<>>, r[3], TRUE)
       \/ \E c \in CraftedFiles :
             /\ enc = IdleEnc
             /\ dec = DecStart("crafted", CraftFile(c), 0, c.outOk)

Next ==
    \/ EncParseArgs
    \/ EncOpenInput
    \/ EncWriteHeader
    \/ EncBlock
    \/ EncFinish
    \/ DecOpenInput
    \/ DecReadHeader
    \/ DecValidate
    \/ DecOpenOutput
    \/ DecBlock
    \/ DecFinish

Spec == Init /\ [][Next]_vars

---------------------------------------------------------------------------
(* The quantisation path of one block on its own: the retained coefficients *)
(* are quantised and serialised as the encoder does (lines 184-214), and    *)
(* the record is read and dequantised as the decoder does (lines 126-145).  *)

\* the largest magnitudes of a block: 1.0, a value of fewer than 24 bits, and
\* values of 25 bits that (float) rounds down (2^24 + 1), up (2^24 + 3) or
\* keeps (2^24 + 2)
QuantScales == {ONE, 3 * Pow2(22) + 1, Pow2(24) + 1, Pow2(24) + 2, Pow2(24) + 3}

QuantDepths == {MinQuantBits, MinQuantBits + 1}

\* the coefficients next to the boundary between levels k and k + 1 for the
\* largest magnitude m: the boundary is m * (2k + 1 - maxLevel) / maxLevel
NearBoundary(m, maxLevel) ==
    { (m * (2 * k + 1 - maxLevel)) \div maxLevel + j :
        k \in 0..(maxLevel - 1), j \in {-1, 0, 1} }

\* one block of two retained coefficients: the largest one (either sign) and
\* one next to a level boundary, at an end of the range or zero
QuantBlocks(maxLevel) ==
    { <<s * m, c>> :
        s \in {-1, 1}, m \in QuantScales, c \in {-ONE, 0, ONE} }
    \cup
    UNION { { <<s * m, c>> : s \in {-1, 1}, c \in NearBoundary(m, maxLevel) } :
              m \in QuantScales }
    \cup { <<0, 0>> }

QzStart(quantBits, coeffs) ==
    [pc |-> "coeffs", quantBits |-> quantBits, numCoeffs |-> Len(coeffs),
     dctCoeffs |-> coeffs, maxCoeff |-> 0, levels |-> <<>>, bs |-> NewWriter,
     scale |-> 0, read |-> <<>>, deq |-> <<>>]

InitQuant ==
    /\ mode = "quant"
    /\ enc = IdleEnc
    /\ dec = IdleDec
    /\ chan = IdleChan
    /\ OthersIdle
    /\ \E q \in QuantDepths :
         \E c \in QuantBlocks(MaxLevelOf(q)) : qz = QzStart(q, c)

\* wav_dct_enc lines 184-214, 229: the scale factor of the block, the float
\* written, the levels quantised against the double and written
QzQuantize ==
    /\ mode = "quant" /\ qz.pc = "coeffs"
    /\ LET maxCoeff == AvoidZero(MaxAbsCoeff(qz.dctCoeffs, qz.numCoeffs))
           maxLevel == MaxLevelOf(qz.quantBits)
           levels   == BlockLevels(qz.dctCoeffs, qz.numCoeffs, maxCoeff, maxLevel)
       IN  qz' = [qz EXCEPT
                    !.pc = "written",
                    !.maxCoeff = maxCoeff,
                    !.levels = levels,
                    !.bs = close_writer(
                             WriteLevels(
                               write_n_bits(@, FloatPattern(ToFloat(maxCoeff)), 32),
                               levels, qz.quantBits))]
    /\ UNCHANGED <<mode, enc, dec, chan, qenc, qdec, cmp, sq, fx, hist>>

\* wav_dct_dec lines 126-145: the scale factor and the levels read, the
\* coefficients dequantised
QzDequantize ==
    /\ mode = "quant" /\ qz.pc = "written"
    /\ LET rec      == ReadRecord(NewReader(qz.bs.bytes), qz.numCoeffs, qz.quantBits)
           maxLevel == MaxLevelOf(qz.quantBits)
       IN  qz' = [qz EXCEPT
                    !.pc = "read",
                    !.scale = rec.maxCoeff,
                    !.read = rec.levels,
                    !.deq = [i \in 1..qz.numCoeffs |->
                               Dequant(rec.levels[i], rec.maxCoeff, maxLevel)]]
    /\ UNCHANGED <<mode, enc, dec, chan, qenc, qdec, cmp, sq, fx, hist>>

NextQuant == QzQuantize \/ QzDequantize

SpecQuant == InitQuant /\ [][NextQuant]_vars

---------------------------------------------------------------------------
(* The bit channel on its own: a sequence of (value, width) pairs is       *)
(* written, the channel is closed, and the file is read back with the same *)
(* widths.                                                                 *)

MaxPairs == 3

PairSet ==
    { <<0, 1>>, <<1, 1>>, <<5, 3>>, <<77, 7>>, <<255, 8>>, <<4660, 13>>,
      <<2147483647, 31>>, <<1, 64>>, <<2147483647, 64>> }

PairSeqs == UNION { [1..n -> PairSet] : n \in 1..MaxPairs }

InitBits ==
    /\ mode = "bits"
    /\ enc = IdleEnc
    /\ dec = IdleDec
    /\ qz = IdleQz
    /\ OthersIdle
    /\ \E ps \in PairSeqs : chan = [IdleChan EXCEPT !.pc = "write", !.pairs = ps]

\* writeBits(value, width) of the next pair
ChanWrite ==
    /\ mode = "bits" /\ chan.pc = "write"
    /\ chan.written < Len(chan.pairs)
    /\ LET p == chan.pairs[chan.written + 1]
       IN  chan' = [chan EXCEPT !.w = write_n_bits(@, p[1], p[2]),
                                !.written = @ + 1]
    /\ UNCHANGED <<mode, enc, dec, qz, qenc, qdec, cmp, sq, fx, hist>>

\* close() after the last pair; the file is then opened for reading
ChanClose ==
    /\ mode = "bits" /\ chan.pc = "write"
    /\ chan.written = Len(chan.pairs)
    /\ chan' = [chan EXCEPT !.w = close_writer(@),
                            !.r = NewReader(close_writer(chan.w).bytes),
                            !.pc = "read"]
    /\ UNCHANGED <<mode, enc, dec, qz, qenc, qdec, cmp, sq, fx, hist>>

\* readBits(width) with the width of the next pair
ChanRead ==
    /\ mode = "bits" /\ chan.pc = "read"
    /\ LET k == Len(chan.got) + 1
           n == chan.pairs[k][2]
       IN  IF CanRead(chan.r, n)
           THEN chan' = [chan EXCEPT
                    !.got = Append(@, read_n_bits(chan.r, n)),
                    !.r = Advance(@, n),
                    !.pc = IF k = Len(chan.pairs) THEN "done" ELSE "read"]
           ELSE chan' = [chan EXCEPT !.pc = "fatal"]
    /\ UNCHANGED <<mode, enc, dec, qz, qenc, qdec, cmp, sq, fx, hist>>

NextBits == ChanWrite \/ ChanClose \/ ChanRead

SpecBits == InitBits /\ [][NextBits]_vars

---------------------------------------------------------------------------
(* wav_quant_enc and wav_quant_dec: the scalar quantisation codec          *)

\* constexpr size_t FRAMES_BUFFER_SIZE (wav_quant_enc, wav_quant_dec, wav_cmp)
FRAMES_BUFFER_SIZE == 65536

MinBits == 1

MaxBits == 16

MinChannels == 1

MaxChannels == 16

\* sample i (from 1, interleaved) of the input signals the model encodes
QSample(kind, i) ==
    CASE kind = "ramp" -> ((i * 7919) % 65536) - 32768
      [] OTHER         -> IF i % 2 = 1 THEN SampleMax ELSE SampleMin

\* wav_quant_enc lines 13-39: the level of a 16-bit sample; step is
\* 65535.0 / (totalLevels - 1) and the quotient is rounded to the nearest
\* integer (no quotient is a tie, 65535 being odd)
quantizeToLevel(sample, bits) ==
    IF bits >= 16 THEN sample + 32768
    ELSE IF bits <= 0 THEN 0
    ELSE LET totalLevels == Pow2(bits)
             a     == (sample + 32768) * (totalLevels - 1)
             q     == a \div 65535
             r     == a % 65535
             level == IF 2 * r > 65535 THEN q + 1 ELSE q
         IN  Max(0, Min(totalLevels - 1, level))

\* the step taken as 65536 / totalLevels
levelToSampleEvenStep(level, bits) ==
    IF bits >= 16 THEN level - 32768
    ELSE IF bits <= 0 THEN 0
    ELSE level * (65536 \div Pow2(bits)) - 32768

\* wav_quant_dec lines 12-34: (short)(minValue + level * step), the cast
\* cutting toward zero; the exact value cut toward zero, which is what the
\* double gives for every level of every depth
levelToSample(level, bits) ==
    IF bits >= 16 THEN level - 32768
    ELSE IF bits <= 0 THEN 0
    ELSE LET totalLevels == Pow2(bits)
             num == level * 65535 - 32768 * (totalLevels - 1)
             den == totalLevels - 1
         IN  IF num >= 0 THEN num \div den ELSE -((-num) \div den)

QuantHeaderBits == 16 + 32 + 64 + 8

\* wav_quant_enc lines 145-148: channels(16), samplerate(32), frames(64),
\* bits(8)
WriteQuantHeader(bs, channels, samplerate, frames, bits) ==
    write_n_bits(
      write_n_bits(
        write_n_bits(
          write_n_bits(bs, channels, 16),
          samplerate, 32),
        frames, 64),
      bits, 8)

\* the header read with the sample rate before the channels
ReadQuantHeaderRateFirst(bs) ==
    LET b == read_bits(bs, QuantHeaderBits)
    IN  [channels   |-> BitsToNat(SubSeq(b, 33, 48)),
         samplerate |-> AsSigned(SubSeq(b, 1, 32)),
         frames     |-> AsSigned(SubSeq(b, 49, 112)),
         bits       |-> BitsToNat(SubSeq(b, 113, 120))]

\* wav_quant_dec lines 82-85: int channels, int samplerate, sf_count_t
\* frames, int bits, read in this order from the next 120 bits
ReadQuantHeader(bs) ==
    LET b == read_bits(bs, QuantHeaderBits)
    IN  [channels   |-> BitsToNat(SubSeq(b, 1, 16)),
         samplerate |-> AsSigned(SubSeq(b, 17, 48)),
         frames     |-> AsSigned(SubSeq(b, 49, 112)),
         bits       |-> BitsToNat(SubSeq(b, 113, 120))]

\* wav_quant_dec lines 88-101: the first check of the header that fails
QuantHeaderError(h) ==
    IF h.channels < MinChannels \/ h.channels > MaxChannels THEN "channels"
    ELSE IF h.samplerate < MinSampleRate \/ h.samplerate > MaxSampleRate
         THEN "samplerate"
    ELSE IF h.bits < MinBits \/ h.bits > MaxBits THEN "bits"
    ELSE "none"

\* sfhIn.readf(samples.data(), FRAMES_BUFFER_SIZE) on a file of the given
\* frame count read up to pos
Readf(frames, pos) == Min(FRAMES_BUFFER_SIZE, frames - pos)

\* wav_quant_dec line 136: size_t nFrames
ChunkFrames(framesToRead) == Min(FRAMES_BUFFER_SIZE, framesToRead)

\* what main of wav_quant_enc has done when it starts on its arguments
QencStart(a, f) ==
    [pc |-> "args", bits |-> a.bits, haveFiles |-> a.haveFiles,
     inFile |-> f, outOk |-> a.outOk,
     channels |-> 0, samplerate |-> 0, frames |-> 0, created |-> FALSE,
     bs |-> NewWriter, pos |-> 0, totalFramesProcessed |-> 0, nlevels |-> 0,
     err |-> "none"]

\* wav_quant_enc lines 63-87: the argument loop and the check of the names
QencParseArgs ==
    /\ mode = "wire" /\ qenc.pc = "args"
    /\ qenc' = IF qenc.bits < MinBits \/ qenc.bits > MaxBits
               THEN [qenc EXCEPT !.pc = "fatal", !.err = "bits"]
               ELSE IF ~qenc.haveFiles
               THEN [qenc EXCEPT !.pc = "fatal", !.err = "files"]
               ELSE [qenc EXCEPT !.pc = "open"]
    /\ UNCHANGED <<mode, enc, dec, qz, chan, qdec, cmp, sq, fx, hist>>

\* wav_quant_enc lines 90-110: the input is opened and its format checked
QencOpenInput ==
    /\ mode = "wire" /\ qenc.pc = "open"
    /\ qenc' = IF ~qenc.inFile.readable
               THEN [qenc EXCEPT !.pc = "fatal", !.err = "open"]
               ELSE IF ~qenc.inFile.isWav
               THEN [qenc EXCEPT !.pc = "fatal", !.err = "wav"]
               ELSE IF ~qenc.inFile.isPcm16
               THEN [qenc EXCEPT !.pc = "fatal", !.err = "pcm16"]
               ELSE [qenc EXCEPT !.pc = "create",
                                 !.channels = qenc.inFile.channels,
                                 !.samplerate = qenc.inFile.samplerate,
                                 !.frames = qenc.inFile.frames]
    /\ UNCHANGED <<mode, enc, dec, qz, chan, qdec, cmp, sq, fx, hist>>

\* wav_quant_enc lines 134-148: the output is created and the header written
QencWriteHeader ==
    /\ mode = "wire" /\ qenc.pc = "create"
    /\ qenc' = IF ~qenc.outOk
               THEN [qenc EXCEPT !.pc = "fatal", !.err = "create"]
               ELSE [qenc EXCEPT
                       !.pc = "loop", !.created = TRUE,
                       !.bs = WriteQuantHeader(@, qenc.channels, qenc.samplerate,
                                               qenc.frames, qenc.bits)]
    /\ UNCHANGED <<mode, enc, dec, qz, chan, qdec, cmp, sq, fx, hist>>

\* wav_quant_enc lines 159-172: one buffer of frames is read and every sample
\* of it quantised and written
QencChunk ==
    /\ mode = "wire" /\ qenc.pc = "loop"
    /\ LET nFrames == Readf(qenc.inFile.frames, qenc.pos)
           n       == nFrames * qenc.channels
           levels  == [i \in 1..n |->
                         quantizeToLevel(
                           QSample(qenc.inFile.kind, qenc.pos * qenc.channels + i),
                           qenc.bits)]
       IN  /\ nFrames > 0
           /\ qenc' = [qenc EXCEPT
                         !.bs = WriteLevels(@, levels, qenc.bits),
                         !.pos = @ + nFrames,
                         !.totalFramesProcessed = @ + nFrames,
                         !.nlevels = @ + n]
    /\ UNCHANGED <<mode, enc, dec, qz, chan, qdec, cmp, sq, fx, hist>>

\* wav_quant_enc lines 159, 175-195: readf returns 0, the channel and the
\* file are closed
QencFinish ==
    /\ mode = "wire" /\ qenc.pc = "loop"
    /\ Readf(qenc.inFile.frames, qenc.pos) = 0
    /\ qenc' = [qenc EXCEPT !.bs = close_writer(@), !.pc = "done"]
    /\ UNCHANGED <<mode, enc, dec, qz, chan, qdec, cmp, sq, fx, hist>>

\* what main of wav_quant_dec has done when it starts: its output can be
\* created or not
QdecStart(outOk) ==
    [pc |-> "open", outOk |-> outOk, bs |-> NewReader(<<>>),
     channels |-> 0, samplerate |-> 0, frames |-> 0, bits |-> 0,
     created |-> FALSE, outChannels |-> 0, outRate |-> 0, samples |-> <<>>,
     nFrames |-> 0, framesWritten |-> 0, totalFramesProcessed |-> 0, framesToRead |-> 0,
     nlevels |-> 0, err |-> "none"]

\* wav_quant_dec lines 71-85: the file the encoder closed is opened and the
\* header read
QdecReadHeader ==
    /\ mode = "wire" /\ qdec.pc = "open" /\ qenc.pc = "done"
    /\ LET bs == NewReader(qenc.bs.bytes)
           h  == ReadQuantHeader(bs)
       IN  qdec' = [qdec EXCEPT
                      !.pc = "validate", !.bs = Advance(bs, QuantHeaderBits),
                      !.channels = h.channels, !.samplerate = h.samplerate,
                      !.frames = h.frames, !.bits = h.bits]
    /\ UNCHANGED <<mode, enc, dec, qz, chan, qenc, cmp, sq, fx, hist>>

\* wav_quant_dec lines 88-101
QdecValidate ==
    /\ mode = "wire" /\ qdec.pc = "validate"
    /\ LET e == QuantHeaderError(qdec)
       IN  qdec' = IF e = "none" THEN [qdec EXCEPT !.pc = "create"]
                   ELSE [qdec EXCEPT !.pc = "fatal", !.err = e]
    /\ UNCHANGED <<mode, enc, dec, qz, chan, qenc, cmp, sq, fx, hist>>

\* wav_quant_dec lines 120-133: the output WAV is created with the header's
\* channels and sample rate
QdecOpenOutput ==
    /\ mode = "wire" /\ qdec.pc = "create"
    /\ qdec' = IF ~qdec.outOk
               THEN [qdec EXCEPT !.pc = "fatal", !.err = "create"]
               ELSE [qdec EXCEPT !.pc = "loop", !.created = TRUE,
                                 !.outChannels = qdec.channels,
                                 !.outRate = qdec.samplerate,
                                 !.framesToRead = qdec.frames]
    /\ UNCHANGED <<mode, enc, dec, qz, chan, qenc, cmp, sq, fx, hist>>

\* wav_quant_dec lines 135-154: one buffer of levels is read, turned into
\* samples and written with writef; `samples` is what this writef appended to
\* the output, nFrames its frame count, framesWritten the frames written so
\* far
QdecChunk ==
    /\ mode = "wire" /\ qdec.pc = "loop"
    /\ qdec.framesToRead > 0
    /\ LET nFrames == ChunkFrames(qdec.framesToRead)
           n       == nFrames * qdec.channels
           samples == [i \in 1..n |->
                         levelToSample(
                           read_n_bits(Advance(qdec.bs, (i - 1) * qdec.bits),
                                       qdec.bits),
                           qdec.bits)]
       IN  qdec' = [qdec EXCEPT
                      !.bs = Advance(@, n * qdec.bits),
                      !.samples = samples,
                      !.nFrames = nFrames,
                      !.framesWritten = @ + nFrames,
                      !.totalFramesProcessed = @ + nFrames,
                      !.framesToRead = @ - nFrames,
                      !.nlevels = @ + n]
    /\ UNCHANGED <<mode, enc, dec, qz, chan, qenc, cmp, sq, fx, hist>>

\* wav_quant_dec lines 135, 157-166: no frame is left to read
QdecFinish ==
    /\ mode = "wire" /\ qdec.pc = "loop"
    /\ qdec.framesToRead <= 0
    /\ qdec' = [qdec EXCEPT !.pc = "done"]
    /\ UNCHANGED <<mode, enc, dec, qz, chan, qenc, cmp, sq, fx, hist>>

\* the largest frame count of the short inputs
MaxWireFrames == 3

\* the depths whose reconstruction step is a whole number
WireBits == {1, 2, 4, 8, 16}

WireFile(frames, channels, samplerate, kind) ==
    [readable |-> TRUE, isWav |-> TRUE, isPcm16 |-> TRUE, channels |-> channels,
     samplerate |-> samplerate, frames |-> frames, kind |-> kind]

WireArgs(bits) == [bits |-> bits, haveFiles |-> TRUE, outOk |-> TRUE]

\* short inputs of one and two channels at every depth
ShortWireRuns ==
    { <<WireArgs(b), WireFile(n, c, 44100, k), TRUE>> :
        b \in WireBits, n \in 0..MaxWireFrames, c \in {1, 2}, k \in {"ramp", "peaks"} }

\* an input of one frame more than a buffer holds
LongWireRuns ==
    { <<WireArgs(1), WireFile(FRAMES_BUFFER_SIZE + 1, 1, 8000, "ramp"), TRUE>> }

\* runs that stop with an error, in the encoder or in the decoder
WireErrorRuns ==
    { <<[WireArgs(b) EXCEPT !.haveFiles = h, !.outOk = o],
        [WireFile(2, c, r, "ramp") EXCEPT !.readable = rd, !.isWav = w, !.isPcm16 = p],
        d>> :
        b \in {0, 8, 17}, h \in BOOLEAN, o \in BOOLEAN, c \in {1, 17},
        r \in {999, 44100, 192001}, rd \in BOOLEAN, w \in BOOLEAN,
        p \in BOOLEAN, d \in BOOLEAN }

WireRuns == ShortWireRuns \cup LongWireRuns \cup WireErrorRuns

InitWire ==
    /\ mode = "wire"
    /\ enc = IdleEnc
    /\ dec = IdleDec
    /\ qz = IdleQz
    /\ chan = IdleChan
    /\ cmp = IdleCmp
    /\ RestIdle
    /\ \E r \in WireRuns :
         /\ qenc = QencStart(r[1], r[2])
         /\ qdec = QdecStart(r[3])

NextWire ==
    \/ QencParseArgs
    \/ QencOpenInput
    \/ QencWriteHeader
    \/ QencChunk
    \/ QencFinish
    \/ QdecReadHeader
    \/ QdecValidate
    \/ QdecOpenOutput
    \/ QdecChunk
    \/ QdecFinish

SpecWire == InitWire /\ [][NextWire]_vars

---------------------------------------------------------------------------
(* wav_cmp: two WAV files read in lock step and compared                   *)

\* what element i (from 0) of a sample buffer holds when processFrame is
\* called: readf has stored nRead frames of the file from frame pos on into
\* data(), the vector had `size` elements and has been resized to more than
\* i; an element the resize added is zero, one readf did not reach is old
BufferEntry(pos, nRead, size, channels, i) ==
    IF i >= size THEN <<"zero">>
    ELSE IF i >= nRead * channels THEN <<"old">>
    ELSE <<"sample", pos + (i \div channels), i % channels>>

\* the frames of an iteration taken from the original alone
NFramesOfOrig(nFramesOrig, nFramesProc) == nFramesOrig

\* wav_cmp line 334: size_t nFrames
NFramesOf(nFramesOrig, nFramesProc) == Min(nFramesOrig, nFramesProc)

\* lines 60-79 of processFrame on buffers of n elements: how many elements
\* are counted for a channel, and how many pairs are not the samples of one
\* frame and of the channel they are counted for
CountedFor(ch, n, numChannels) == Cardinality({i \in 0..(n - 1) : i % numChannels = ch})

Mispaired(c, nFramesOrig, nFramesProc, n) ==
    Cardinality(
      {i \in 0..(n - 1) :
         LET o == BufferEntry(c.posOrig, nFramesOrig, c.sizeOrig, c.numChannels, i)
             p == BufferEntry(c.posProc, nFramesProc, c.sizeProc, c.numChannels, i)
         IN  \/ o[1] # "sample" \/ p[1] # "sample"
             \/ o[2] # p[2] \/ o[3] # p[3]
             \/ o[3] # i % c.numChannels})

\* what main of wav_cmp has done when it starts on its two files
CmpStart(o, p) ==
    [pc |-> "open", orig |-> o, proc |-> p, warned |-> FALSE, numChannels |-> 0,
     posOrig |-> 0, posProc |-> 0, sizeOrig |-> 0, sizeProc |-> 0,
     numSamples |-> <<>>, mispaired |-> 0, totalFramesProcessed |-> 0,
     iterations |-> 0, err |-> "none"]

\* wav_cmp lines 253-323: the files are opened and checked, the comparator
\* and the two buffers created
CmpOpen ==
    /\ mode = "cmp" /\ cmp.pc = "open"
    /\ cmp' =
         IF ~cmp.orig.readable \/ ~cmp.proc.readable
         THEN [cmp EXCEPT !.pc = "fatal", !.err = "open"]
         ELSE IF ~cmp.orig.isWav \/ ~cmp.proc.isWav
         THEN [cmp EXCEPT !.pc = "fatal", !.err = "wav"]
         ELSE IF ~cmp.orig.isPcm16 \/ ~cmp.proc.isPcm16
         THEN [cmp EXCEPT !.pc = "fatal", !.err = "pcm16"]
         ELSE IF cmp.orig.channels # cmp.proc.channels
         THEN [cmp EXCEPT !.pc = "fatal", !.err = "channels"]
         ELSE IF cmp.orig.samplerate # cmp.proc.samplerate
         THEN [cmp EXCEPT !.pc = "fatal", !.err = "samplerate"]
         ELSE [cmp EXCEPT
                 !.pc = "loop",
                 !.warned = (cmp.orig.frames # cmp.proc.frames),
                 !.numChannels = cmp.orig.channels,
                 !.numSamples = Replicate(cmp.orig.channels, 0),
                 !.sizeOrig = FRAMES_BUFFER_SIZE * cmp.orig.channels,
                 !.sizeProc = FRAMES_BUFFER_SIZE * cmp.proc.channels]
    /\ UNCHANGED <<mode, enc, dec, qz, chan, qenc, qdec, sq, fx, hist>>

\* wav_cmp lines 325-348: both files give frames; the buffers are resized to
\* nFrames frames and processFrame counts and compares every element
CmpChunk ==
    /\ mode = "cmp" /\ cmp.pc = "loop"
    /\ LET nFramesOrig == Readf(cmp.orig.frames, cmp.posOrig)
           nFramesProc == Readf(cmp.proc.frames, cmp.posProc)
           nFrames     == NFramesOf(nFramesOrig, nFramesProc)
           n           == nFrames * cmp.numChannels
       IN  /\ nFramesOrig # 0 /\ nFramesProc # 0
           /\ cmp' = [cmp EXCEPT
                        !.posOrig = @ + nFramesOrig,
                        !.posProc = @ + nFramesProc,
                        !.sizeOrig = n,
                        !.sizeProc = n,
                        !.numSamples =
                            [ch \in 1..cmp.numChannels |->
                               @[ch] + CountedFor(ch - 1, n, cmp.numChannels)],
                        !.mispaired = @ + Mispaired(cmp, nFramesOrig, nFramesProc, n),
                        !.totalFramesProcessed = @ + nFrames,
                        !.iterations = @ + 1]
    /\ UNCHANGED <<mode, enc, dec, qz, chan, qenc, qdec, sq, fx, hist>>

\* wav_cmp lines 326-331, 355-358: one of the files gives no frame, the loop
\* ends and the results are printed
CmpFinish ==
    /\ mode = "cmp" /\ cmp.pc = "loop"
    /\ LET nFramesOrig == Readf(cmp.orig.frames, cmp.posOrig)
           nFramesProc == Readf(cmp.proc.frames, cmp.posProc)
       IN  /\ nFramesOrig = 0 \/ nFramesProc = 0
           /\ cmp' = [cmp EXCEPT !.pc = "done",
                                 !.posOrig = @ + nFramesOrig,
                                 !.posProc = @ + nFramesProc]
    /\ UNCHANGED <<mode, enc, dec, qz, chan, qenc, qdec, sq, fx, hist>>

\* the largest frame count of the short files
MaxCmpFrames == 4

CmpFile(frames, channels, samplerate) ==
    [readable |-> TRUE, isWav |-> TRUE, isPcm16 |-> TRUE, channels |-> channels,
     samplerate |-> samplerate, frames |-> frames]

\* the frame counts around one and two buffers
LongFrames ==
    {FRAMES_BUFFER_SIZE - 1, FRAMES_BUFFER_SIZE, FRAMES_BUFFER_SIZE + 1,
     2 * FRAMES_BUFFER_SIZE, 2 * FRAMES_BUFFER_SIZE + 5}

CmpFrames == (0..MaxCmpFrames) \cup LongFrames

CmpRuns ==
    { <<CmpFile(a, c, 44100), CmpFile(b, c, 44100)>> :
        a \in CmpFrames, b \in CmpFrames, c \in {1, 2} }

\* pairs of files that wav_cmp refuses
CmpErrorRuns ==
    { <<[CmpFile(3, 1, 44100) EXCEPT !.readable = r, !.isWav = w],
        [CmpFile(2, c, s) EXCEPT !.isPcm16 = p]>> :
        r \in BOOLEAN, w \in BOOLEAN, p \in BOOLEAN, c \in {1, 2},
        s \in {44100, 48000} }

InitCmp ==
    /\ mode = "cmp"
    /\ enc = IdleEnc
    /\ dec = IdleDec
    /\ qz = IdleQz
    /\ chan = IdleChan
    /\ qenc = IdleQenc
    /\ qdec = IdleQdec
    /\ RestIdle
    /\ \E r \in CmpRuns \cup CmpErrorRuns : cmp = CmpStart(r[1], r[2])

NextCmp == CmpOpen \/ CmpChunk \/ CmpFinish

SpecCmp == InitCmp /\ [][NextCmp]_vars

---------------------------------------------------------------------------
(* The scalar quantiser on its own: quantizeUniform of wav_quant, and       *)
(* quantizeToLevel of wav_quant_enc with levelToSample of wav_quant_dec,    *)
(* applied to one sample or to one level.  step = 65535.0 / (totalLevels -  *)
(* 1) is a double; the quotients and products taken with it are computed    *)
(* here as exact fractions, which give the same levels and samples as the   *)
(* doubles do for every sample, level and depth.                            *)

\* the level taken by cutting the quotient instead of rounding it
quantizeUniformCut(sample, bits) ==
    IF bits >= 16 THEN sample
    ELSE IF bits <= 0 THEN 0
    ELSE LET totalLevels == Pow2(bits)
             level == ((sample + 32768) * (totalLevels - 1)) \div 65535
             num   == level * 65535 - 32768 * (totalLevels - 1)
         IN  IF num >= 0 THEN num \div (totalLevels - 1)
             ELSE -((-num) \div (totalLevels - 1))

\* wav_quant.cpp lines 27-55: level = (int)round((sample - minValue) / step),
\* clamped to [0, totalLevels - 1]; quantized = (short)(minValue + level *
\* step), the cast cutting toward zero
quantizeUniform(sample, bits) ==
    IF bits >= 16 THEN sample
    ELSE IF bits <= 0 THEN 0
    ELSE LET totalLevels == Pow2(bits)
             maxValue    == Pow2(15) - 1
             minValue    == -Pow2(15)
             range       == maxValue - minValue
             a           == (sample - minValue) * (totalLevels - 1)
             rounded     == IF 2 * (a % range) >= range THEN a \div range + 1
                            ELSE a \div range
             level       == IF rounded < 0 THEN 0
                            ELSE IF rounded >= totalLevels THEN totalLevels - 1
                            ELSE rounded
             num         == minValue * (totalLevels - 1) + level * range
         IN  IF num >= 0 THEN num \div (totalLevels - 1)
             ELSE -((-num) \div (totalLevels - 1))

\* how many samples are taken at each end of the range and around zero
EdgeWidth == 40

\* the distance between the samples taken over the whole range
SampleStride == 3

\* the 16-bit samples the functions are applied to
ScalarSamples ==
    { s \in SampleMin..SampleMax :
        \/ s <= SampleMin + EdgeWidth
        \/ s >= SampleMax - EdgeWidth
        \/ Abs(s) <= EdgeWidth
        \/ s % SampleStride = 0 }

\* the levels of a depth the functions are applied to: all of them
ScalarLevels(bits) == 0..(Pow2(bits) - 1)

SqStart(kind, sample, level, bits) ==
    [pc |-> IF kind = "sample" THEN "sample" ELSE "level", kind |-> kind,
     sample |-> sample, bits |-> bits, level |-> level, decoded |-> 0,
     relevel |-> 0, quantized |-> 0]

InitScalar ==
    /\ mode = "scalar"
    /\ enc = IdleEnc
    /\ dec = IdleDec
    /\ qz = IdleQz
    /\ chan = IdleChan
    /\ qenc = IdleQenc /\ qdec = IdleQdec /\ cmp = IdleCmp
    /\ fx = IdleFx /\ hist = IdleHist
    /\ \E bits \in MinBits..MaxBits :
         \/ \E s \in ScalarSamples : sq = SqStart("sample", s, 0, bits)
         \/ \E l \in ScalarLevels(bits) : sq = SqStart("level", 0, l, bits)

\* wav_quant: samples[i] = quantizeUniform(samples[i], targetBits)
SqInPlace ==
    /\ mode = "scalar" /\ sq.pc = "sample"
    /\ sq' = [sq EXCEPT !.pc = "encode",
                        !.quantized = quantizeUniform(sq.sample, sq.bits)]
    /\ UNCHANGED <<mode, enc, dec, qz, chan, qenc, qdec, cmp, fx, hist>>

\* wav_quant_enc: int level = quantizeToLevel(samples[i], targetBits)
SqEncode ==
    /\ mode = "scalar" /\ sq.pc = "encode"
    /\ sq' = [sq EXCEPT !.pc = "level",
                        !.level = quantizeToLevel(sq.sample, sq.bits)]
    /\ UNCHANGED <<mode, enc, dec, qz, chan, qenc, qdec, cmp, fx, hist>>

\* wav_quant_dec: samples[i] = levelToSample(level, bits)
SqDecode ==
    /\ mode = "scalar" /\ sq.pc = "level"
    /\ sq' = [sq EXCEPT !.pc = "decoded",
                        !.decoded = levelToSample(sq.level, sq.bits)]
    /\ UNCHANGED <<mode, enc, dec, qz, chan, qenc, qdec, cmp, fx, hist>>

\* wav_quant_enc run on the decoded file with the same depth
SqReencode ==
    /\ mode = "scalar" /\ sq.pc = "decoded"
    /\ sq' = [sq EXCEPT !.pc = "done",
                        !.relevel = quantizeToLevel(sq.decoded, sq.bits)]
    /\ UNCHANGED <<mode, enc, dec, qz, chan, qenc, qdec, cmp, fx, hist>>

NextScalar == SqInPlace \/ SqEncode \/ SqDecode \/ SqReencode

SpecScalar == InitScalar /\ [][NextScalar]_vars

---------------------------------------------------------------------------
(* wav_effects: the AudioEffects object of main, loaded from a file, with   *)
(* applyMultipleEchoes called on it and the result saved.  A feedback is a  *)
(* whole number of quarters (0.25 is 1), so that every product and sum of   *)
(* the mixing is exact in a double as it is here.                           *)

\* the feedbacks are counted in units of 1 / FbDen
FbDen == Pow2(2)

\* the longest input, in frames
MaxFxFrames == 3

\* the most echoes of a call
MaxEchoes == 2

\* lines 22-26: clamp16 of the value v / FbDen: the limits, else round(),
\* halves away from zero
clamp16(v) ==
    IF v > 32767 * FbDen THEN 32767
    ELSE IF v < -32768 * FbDen THEN -32768
    ELSE RoundDiv(v, FbDen)

\* lines 29-32: getSample(frame, channel) of the object a (frames and
\* channels from 0)
getSample(a, frame, channel) ==
    IF frame >= a.numFrames \/ channel >= a.channels THEN 0
    ELSE a.audioData[frame * a.channels + channel + 1]

\* line 112: static_cast<size_t>(delayMs * sampleRate / 1000.0), for a whole
\* number of milliseconds
DelaySamplesOf(delayMs, sampleRate) == (delayMs * sampleRate) \div 1000

\* lines 110-116: the vector delaySamples: the delays below numFrames, in
\* the order given
KeptDelays(a, delaysMs) ==
    SelectSeq([i \in 1..Len(delaysMs) |-> DelaySamplesOf(delaysMs[i], a.sampleRate)],
              LAMBDA d : d < a.numFrames)

\* lines 122-130: mixed for one frame and channel, times FbDen
MixedAt(a, delaySamples, feedbacks, frame, ch) ==
    LET n == Min(Len(delaySamples), Len(feedbacks))
    IN  FbDen * getSample(a, frame, ch)
          + SumRange([i \in 1..n |->
                        IF frame >= delaySamples[i]
                        THEN feedbacks[i] * getSample(a, frame - delaySamples[i], ch)
                        ELSE 0],
                     1, n)

\* lines 104-137: applyMultipleEchoes(delaysMs, feedbacks) on the object a:
\* the audio data after the call
applyMultipleEchoes(a, delaysMs, feedbacks) ==
    IF Len(delaysMs) # Len(feedbacks) THEN a.audioData
    ELSE LET delaySamples == KeptDelays(a, delaysMs)
         IN  [k \in 1..Len(a.audioData) |->
                clamp16(MixedAt(a, delaySamples, feedbacks,
                                (k - 1) \div a.channels, (k - 1) % a.channels))]

\* element i (from 1, interleaved) of the inputs the model loads
FxSample(kind, i) ==
    CASE kind = "peak" -> IF i % 2 = 1 THEN SampleMax ELSE SampleMin
      [] OTHER         -> 1000 * i + 1

\* main before loadAudio: the input file and the two lists of the command
\* line
FxStart(file, delaysMs, feedbacks, outOk) ==
    [pc |-> "load", file |-> file, delaysMs |-> delaysMs, feedbacks |-> feedbacks,
     outOk |-> outOk,
     audioData |-> <<>>, channels |-> 0, sampleRate |-> 0, numFrames |-> 0,
     saved |-> <<>>, err |-> "none"]

\* lines 42-66: loadAudio
FxLoadAudio ==
    /\ mode = "fx" /\ fx.pc = "load"
    /\ fx' = IF ~fx.file.ok THEN [fx EXCEPT !.pc = "fatal", !.err = "open"]
             ELSE IF ~fx.file.wav THEN [fx EXCEPT !.pc = "fatal", !.err = "format"]
             ELSE IF ~fx.file.pcm16
             THEN [fx EXCEPT !.pc = "fatal", !.err = "subformat"]
             ELSE [fx EXCEPT
                     !.pc = "loaded",
                     !.channels = fx.file.channels,
                     !.sampleRate = fx.file.samplerate,
                     !.numFrames = fx.file.frames,
                     !.audioData = [i \in 1..(fx.file.frames * fx.file.channels) |->
                                      FxSample(fx.file.kind, i)]]
    /\ UNCHANGED <<mode, enc, dec, qz, chan, qenc, qdec, cmp, sq, hist>>

\* main lines 338-341: processor.applyMultipleEchoes(delays, feedbacks)
FxApply ==
    /\ mode = "fx" /\ fx.pc = "loaded"
    /\ fx' = [fx EXCEPT !.pc = "applied",
                        !.audioData = applyMultipleEchoes(fx, fx.delaysMs,
                                                          fx.feedbacks)]
    /\ UNCHANGED <<mode, enc, dec, qz, chan, qenc, qdec, cmp, sq, hist>>

\* lines 68-77, main lines 381-388: saveAudio
FxSaveAudio ==
    /\ mode = "fx" /\ fx.pc = "applied"
    /\ fx' = IF ~fx.outOk THEN [fx EXCEPT !.pc = "fatal", !.err = "create"]
             ELSE [fx EXCEPT !.pc = "saved",
                             !.saved = SubSeq(fx.audioData, 1,
                                              fx.numFrames * fx.channels)]
    /\ UNCHANGED <<mode, enc, dec, qz, chan, qenc, qdec, cmp, sq, hist>>

FxFile(frames, channels, samplerate, kind) ==
    [ok |-> TRUE, wav |-> TRUE, pcm16 |-> TRUE, frames |-> frames,
     channels |-> channels, samplerate |-> samplerate, kind |-> kind]

\* the sequences of at most n elements of the set S
SeqsUpTo(S, n) == UNION { [1..k -> S] : k \in 0..n }

\* delays of 0 to 4 ms at 1000 and 2000 Hz on inputs of at most MaxFxFrames
\* frames: some below the length of the input, some not
FxRuns ==
    { << FxFile(f, c, sr, k), d, fb, TRUE >> :
        f \in {0, MaxFxFrames - 1, MaxFxFrames}, c \in {1, 2}, sr \in {1000, 2000},
        k \in {"ramp", "peak"},
        d \in SeqsUpTo({0, 1, 2, 4}, MaxEchoes),
        fb \in SeqsUpTo({1, 2, -4}, MaxEchoes) }

FxErrorRuns ==
    { << [FxFile(2, 1, 1000, "ramp") EXCEPT !.ok = FALSE], <<1>>, <<1>>, TRUE >>,
      << [FxFile(2, 1, 1000, "ramp") EXCEPT !.wav = FALSE], <<1>>, <<1>>, TRUE >>,
      << [FxFile(2, 1, 1000, "ramp") EXCEPT !.pcm16 = FALSE], <<1>>, <<1>>, TRUE >>,
      << FxFile(2, 1, 1000, "ramp"), <<1>>, <<1>>, FALSE >> }

InitFx ==
    /\ mode = "fx"
    /\ enc = IdleEnc
    /\ dec = IdleDec
    /\ qz = IdleQz
    /\ chan = IdleChan
    /\ qenc = IdleQenc /\ qdec = IdleQdec /\ cmp = IdleCmp
    /\ sq = IdleSq /\ hist = IdleHist
    /\ \E r \in FxRuns \cup FxErrorRuns : fx = FxStart(r[1], r[2], r[3], r[4])

NextFx == FxLoadAudio \/ FxApply \/ FxSaveAudio

SpecFx == InitFx /\ [][NextFx]_vars

---------------------------------------------------------------------------
(* wav_hist: main reads the file in buffers, updates the WAVHist object    *)
(* with each and dumps one histogram; dumpToFile is the object's other way *)
(* out.  A std::map<int, size_t> is a function from its keys to its        *)
(* counts, and what is printed is its entries in the order of the keys.    *)

\* the longest input, in frames
MaxHistFrames == 3

\* the int division of C++ for a positive divisor: toward zero
CDiv(a, b) == IF a >= 0 THEN a \div b ELSE -((-a) \div b)

\* m[k]++ on a map (operator[] makes a missing entry with count 0)
MapAdd(m, k, n) ==
    [x \in DOMAIN m \cup {k} |->
        IF x = k THEN (IF k \in DOMAIN m THEN m[k] ELSE 0) + n ELSE m[x]]

EmptyMap == [x \in {} |-> 0]

\* the keys of a map in the order of its iteration
RECURSIVE KeysInOrder(_)
KeysInOrder(S) ==
    IF S = {} THEN <<>>
    ELSE LET k == CHOOSE x \in S : \A y \in S : x <= y
         IN  <<k>> \o KeysInOrder(S \ {k})

\* wav_hist.h lines 87-88, wav_hist.cpp lines 110-112: one line per entry
HistLines(m) ==
    LET keys == KeysInOrder(DOMAIN m)
    IN  [i \in 1..Len(keys) |-> <<keys[i], m[keys[i]]>>]

\* wav_hist.h line 80, wav_hist.cpp line 97: int bin = (value / binSize) *
\* binSize
BinOf(value, binSize) == CDiv(value, binSize) * binSize

\* wav_hist.h lines 77-83: rebinned, the map's entries taken in order
RECURSIVE RebinFrom(_, _, _, _)
RebinFrom(m, keys, binSize, rebinned) ==
    IF keys = <<>> THEN rebinned
    ELSE RebinFrom(m, Tail(keys), binSize,
                   MapAdd(rebinned, BinOf(Head(keys), binSize), m[Head(keys)]))

\* wav_hist.h lines 77-85: finalHist
FinalHist(m, binSize) ==
    IF binSize > 1 THEN RebinFrom(m, KeysInOrder(DOMAIN m), binSize, EmptyMap)
    ELSE m

\* wav_hist.h lines 64-75: the histogram of the channel asked for, as a
\* record with found FALSE for an invalid channel index; a negative channel
\* of main is a size_t above every index
HistOf(h, channel) ==
    IF channel >= 0 /\ channel < h.nChannels
    THEN [found |-> TRUE, map |-> h.counts[channel + 1]]
    ELSE IF channel = h.nChannels /\ h.nChannels = 2
    THEN [found |-> TRUE, map |-> h.midHist]
    ELSE IF channel = h.nChannels + 1 /\ h.nChannels = 2
    THEN [found |-> TRUE, map |-> h.sideHist]
    ELSE [found |-> FALSE, map |-> EmptyMap]

\* wav_hist.h lines 39-58: update with the frames first..last of the file,
\* one frame after the other
RECURSIVE UpdateFrom(_, _, _)
UpdateFrom(h, first, last) ==
    IF first > last THEN h
    ELSE LET frame == h.file.frames[first]
             one == [h EXCEPT
                       !.counts = [ch \in 1..h.nChannels |->
                                     MapAdd(h.counts[ch], frame[ch], 1)],
                       !.midHist = IF h.nChannels = 2
                                   THEN MapAdd(h.midHist,
                                               CDiv(frame[1] + frame[2], 2), 1)
                                   ELSE h.midHist,
                       !.sideHist = IF h.nChannels = 2
                                    THEN MapAdd(h.sideHist,
                                                CDiv(frame[1] - frame[2], 2), 1)
                                    ELSE h.sideHist]
         IN  UpdateFrom(one, first + 1, last)

\* main before the file is opened
HistStart(file, channel, binSize, outOk) ==
    [pc |-> "open", file |-> file, channel |-> channel, binSize |-> binSize,
     outOk |-> outOk, nChannels |-> 0, counts |-> <<>>, midHist |-> EmptyMap,
     sideHist |-> EmptyMap, pos |-> 0, out |-> <<>>, err |-> "none"]

\* wav_hist.cpp lines 37-69: the file and the channel are tested, the
\* object is made
HistOpen ==
    /\ mode = "hist" /\ hist.pc = "open"
    /\ hist' = IF ~hist.file.ok THEN [hist EXCEPT !.pc = "fatal", !.err = "open"]
               ELSE IF ~hist.file.wav
               THEN [hist EXCEPT !.pc = "fatal", !.err = "format"]
               ELSE IF ~hist.file.pcm16
               THEN [hist EXCEPT !.pc = "fatal", !.err = "subformat"]
               ELSE IF hist.channel > (IF hist.file.channels = 2
                                       THEN hist.file.channels + 1
                                       ELSE hist.file.channels - 1)
               THEN [hist EXCEPT !.pc = "fatal", !.err = "channel"]
               ELSE [hist EXCEPT
                       !.pc = "read",
                       !.nChannels = hist.file.channels,
                       !.counts = [ch \in 1..hist.file.channels |-> EmptyMap]]
    /\ UNCHANGED <<mode, enc, dec, qz, chan, qenc, qdec, cmp, sq, fx>>

\* wav_hist.cpp lines 71-74: one buffer read and passed to update
HistUpdate ==
    /\ mode = "hist" /\ hist.pc = "read"
    /\ hist.pos < Len(hist.file.frames)
    /\ LET nFrames == Min(FRAMES_BUFFER_SIZE, Len(hist.file.frames) - hist.pos)
       IN  hist' = [UpdateFrom(hist, hist.pos + 1, hist.pos + nFrames)
                      EXCEPT !.pos = hist.pos + nFrames]
    /\ UNCHANGED <<mode, enc, dec, qz, chan, qenc, qdec, cmp, sq, fx>>

\* wav_hist.cpp line 76, wav_hist.h lines 63-89: dump(channel, binSize)
\* after the last buffer
HistDump ==
    /\ mode = "hist" /\ hist.pc = "read"
    /\ hist.pos = Len(hist.file.frames)
    /\ LET h == HistOf(hist, hist.channel)
       IN  hist' = IF ~h.found
                   THEN [hist EXCEPT !.pc = "dumped", !.err = "index"]
                   ELSE [hist EXCEPT
                           !.pc = "dumped",
                           !.out = HistLines(FinalHist(h.map, hist.binSize))]
    /\ UNCHANGED <<mode, enc, dec, qz, chan, qenc, qdec, cmp, sq, fx>>

\* wav_hist.cpp lines 80-115: dumpToFile(filename, channel, binSize) on the
\* same object
HistDumpToFile ==
    /\ mode = "hist" /\ hist.pc = "read"
    /\ hist.pos = Len(hist.file.frames)
    /\ LET h == HistOf(hist, hist.channel)
       IN  hist' = IF ~h.found
                   THEN [hist EXCEPT !.pc = "filed", !.err = "index"]
                   ELSE IF ~hist.outOk
                   THEN [hist EXCEPT !.pc = "filed", !.err = "create"]
                   ELSE [hist EXCEPT
                           !.pc = "filed",
                           !.out = HistLines(FinalHist(h.map, hist.binSize))]
    /\ UNCHANGED <<mode, enc, dec, qz, chan, qenc, qdec, cmp, sq, fx>>

HistFile(channels, frames) ==
    [ok |-> TRUE, wav |-> TRUE, pcm16 |-> TRUE, channels |-> channels,
     frames |-> frames]

\* the samples of the mono inputs and the frames of the stereo ones
MonoFrames == { <<v>> : v \in {-4, -3, -1, 0, 1, 2, 3} }

StereoFrames == { <<-3, 1>>, <<-1, -2>>, <<2, 3>>, <<SampleMin, SampleMax>>,
                  <<0, -1>> }

HistRuns ==
    { << HistFile(1, fr), ch, b, ok >> :
        fr \in SeqsUpTo(MonoFrames, MaxHistFrames), ch \in {-1, 0, 1},
        b \in {0, 1, 2, 3, 4}, ok \in {TRUE} }
    \cup
    { << HistFile(2, fr), ch, b, ok >> :
        fr \in SeqsUpTo(StereoFrames, MaxHistFrames), ch \in 0..4,
        b \in {1, 2, 4}, ok \in {TRUE} }

HistErrorRuns ==
    { << [HistFile(1, <<>>) EXCEPT !.ok = FALSE], 0, 1, TRUE >>,
      << [HistFile(1, <<>>) EXCEPT !.wav = FALSE], 0, 1, TRUE >>,
      << [HistFile(1, <<>>) EXCEPT !.pcm16 = FALSE], 0, 1, TRUE >>,
      << HistFile(1, << <<-1>>, <<-1>> >>), 0, 2, FALSE >> }

InitHist ==
    /\ mode = "hist"
    /\ enc = IdleEnc
    /\ dec = IdleDec
    /\ qz = IdleQz
    /\ chan = IdleChan
    /\ qenc = IdleQenc /\ qdec = IdleQdec /\ cmp = IdleCmp
    /\ sq = IdleSq /\ fx = IdleFx
    /\ \E r \in HistRuns \cup HistErrorRuns :
          hist = HistStart(r[1], r[2], r[3], r[4])

NextHist == HistOpen \/ HistUpdate \/ HistDump \/ HistDumpToFile

SpecHist == InitHist /\ [][NextHist]_vars

---------------------------------------------------------------------------
(* Properties of the encoder and the decoder (specification Spec)          *)

\* the ranges of the header fields as section 3 of the specification
\* declares them
DeclaredHeader(h) ==
    /\ h.samplerate >= 1000 /\ h.samplerate <= 192000
    /\ h.frames >= 0
    /\ h.blockSize >= 64 /\ h.blockSize <= 8192
    /\ h.numCoeffs >= 1 /\ h.numCoeffs <= h.blockSize
    /\ h.quantBits >= 4 /\ h.quantBits <= 16

\* the decoder has read the 136 bits of a header
HeaderWasRead == mode = "run" /\ dec.bs.pos >= 136

\* C1: a decoder given a valid header (totalFrames >= 0) emits
\* min(blockSize, frames remaining) samples for every block it decodes and
\* reads one block record per block; when it finishes it has emitted exactly
\* totalFrames samples and read exactly ceil(totalFrames / blockSize) records.
C1_FrameCountExact ==
    (HeaderWasRead /\ DeclaredHeader(dec)) =>
        /\ \A b \in 1..Len(dec.emitted) :
              dec.emitted[b] = Min(dec.blockSize, dec.frames - (b - 1) * dec.blockSize)
        /\ Len(dec.out) = SumRange(dec.emitted, 1, Len(dec.emitted))
        /\ Len(dec.out) <= dec.frames
        /\ dec.bs.pos = 136 + Len(dec.emitted) * (32 + dec.numCoeffs * dec.quantBits)
        /\ dec.pc = "done" =>
              /\ Len(dec.out) = dec.frames
              /\ Len(dec.emitted) = CeilDiv(dec.frames, dec.blockSize)

\* blockSize = 1024, totalFrames = 2500: three blocks of 1024, 1024 and 452
C1_Witness ==
    /\ mode = "run" /\ dec.pc = "done"
    /\ dec.blockSize = 1024 /\ dec.frames = 2500
    /\ dec.emitted = <<1024, 1024, 452>>
    /\ Len(dec.out) = 2500

\* C2: the encoder writes sampleRate (32 bits), totalFrames (64), blockSize
\* (16), numCoeffs (16) and quantBits (8) in this order, and a decoder that
\* has read the header of the encoder's file holds the five values the
\* encoder wrote.
C2_HeaderRoundTrip ==
    /\ (mode = "run" /\ enc.created) =>
          /\ Len(enc.wlog) >= 5
          /\ SubSeq(enc.wlog, 1, 5) =
                << <<"samplerate", 32>>, <<"frames", 64>>, <<"blockSize", 16>>,
                   <<"numCoeffs", 16>>, <<"quantBits", 8>> >>
    /\ (HeaderWasRead /\ dec.src = "encoder") =>
          /\ dec.samplerate = enc.samplerate
          /\ dec.frames = enc.frames
          /\ dec.blockSize = enc.blockSize
          /\ dec.numCoeffs = enc.numCoeffs
          /\ dec.quantBits = enc.quantBits

\* a header of the largest values of every field but the frames, read back
C2_Witness ==
    /\ HeaderWasRead /\ dec.src = "encoder" /\ dec.pc = "done"
    /\ DeclaredHeader(dec)
    /\ dec.samplerate = 192000 /\ dec.blockSize = 8192
    /\ dec.numCoeffs = 1638 /\ dec.quantBits = 16

\* C3: a decoder that has read a header with a field outside its declared
\* range (totalFrames < 0 among them) stops in a fatal error: it creates no
\* output file, writes no sample and reads no block record.
C3_InvalidHeaderRejected ==
    (HeaderWasRead /\ ~DeclaredHeader(dec)) =>
        /\ dec.pc \in {"validate", "fatal"}
        /\ ~dec.created
        /\ dec.out = <<>>
        /\ dec.bs.pos = 136

\* the bits of the decoder's input
StreamBits == 8 * Len(dec.bs.bytes)

\* the bits a complete stream of the header's frames holds
NeededBits ==
    136 + CeilDiv(dec.frames, dec.blockSize) * (32 + dec.numCoeffs * dec.quantBits)

C4_WitnessHeader ==
    /\ mode = "run" /\ dec.pc = "fatal" /\ dec.err = "truncated"
    /\ StreamBits < 136 /\ StreamBits > 0

\* the options as the specification declares them out of range
DeclaredBadOptions ==
    \/ enc.blockSize < 64 \/ enc.blockSize > 8192
    \/ enc.fracNum <= 0 \/ enc.fracNum > enc.fracDen
    \/ enc.quantBits < 4 \/ enc.quantBits > 16

\* C5: an encoder started with a block size outside [64, 8192], a keep
\* fraction outside (0, 1] or a bit depth outside [4, 16] stops in a fatal
\* error at its argument check: the input is not opened, the output file is
\* not created and no bit is written.
C5_BadOptionsFatal ==
    (mode = "run" /\ enc.pc # "idle" /\ DeclaredBadOptions) =>
        /\ enc.pc \in {"args", "fatal"}
        /\ ~enc.opened /\ ~enc.created
        /\ enc.bs = NewWriter /\ enc.wlog = <<>> /\ enc.nread = 0

\* each of the three options refused in turn
C5_Witness ==
    /\ mode = "run" /\ enc.pc = "fatal" /\ enc.err = "fraction"
    /\ enc.fracNum = 0 /\ ~enc.opened /\ ~enc.created

C5_WitnessBlockSize ==
    /\ mode = "run" /\ enc.pc = "fatal" /\ enc.err = "blockSize"
    /\ enc.blockSize = 8193

C5_WitnessQuantBits ==
    /\ mode = "run" /\ enc.pc = "fatal" /\ enc.err = "quantBits"
    /\ enc.quantBits = 17

\* C6: every retained coefficient c of a block and its dequantised value
\* (level * 2 / maxLevel - 1) * scaleFactor, with the level the encoder wrote
\* and the scale factor the decoder read, differ by at most
\* scaleFactor / maxLevel (both sides multiplied by maxLevel).
C6_QuantStepBound ==
    (mode = "quant" /\ qz.pc = "read") =>
        \A i \in 1..qz.numCoeffs :
            LET maxLevel == 2 ^ qz.quantBits - 1
            IN  Abs((2 * qz.read[i] - maxLevel) * qz.scale - qz.dctCoeffs[i] * maxLevel)
                  <= qz.scale

\* C7: an input whose samples are all zero, encoded and decoded, gives
\* samples that are zero or differ from zero by the rounding of one sample.
C7_SilencePreserved ==
    (mode = "run" /\ dec.src = "encoder" /\ dec.cut = 0
       /\ enc.inFile.kind = "zero") =>
        \A i \in 1..Len(dec.out) : Abs(dec.out[i]) <= 1

\* C8: every sample the decoder has emitted lies in [-32768, 32767]; a
\* reconstructed value above 32767 is emitted as 32767, one below -32768 as
\* -32768, and a value in between as the nearest integer (the reconstructed
\* value of sample i is recon[i] / (16 * blockSize)).
C8_ClampSaturates ==
    (mode = "run" /\ dec.pc \in {"loop", "done", "fatal"}) =>
        /\ \A i \in 1..Len(dec.out) : dec.out[i] >= -32768 /\ dec.out[i] <= 32767
        /\ Len(dec.recon) <= Len(dec.out)
        /\ \A i \in 1..Len(dec.recon) :
              LET y   == dec.recon[i]
                  den == 16 * dec.blockSize
                  smp == dec.out[Len(dec.out) - Len(dec.recon) + i]
              IN  /\ y > 32767 * den => smp = 32767
                  /\ y < -32768 * den => smp = -32768
                  /\ (y <= 32767 * den /\ y >= -32768 * den) =>
                        /\ 2 * Abs(smp * den - y) <= den
                        /\ smp = dec.samples[i]

\* one block with a value clamped at each end of the range
C8_Witness ==
    /\ mode = "run" /\ dec.pc = "done"
    /\ \E i \in 1..Len(dec.recon) :
          dec.recon[i] > 32767 * 16 * dec.blockSize /\ dec.out[i] = 32767
    /\ \E i \in 1..Len(dec.recon) :
          dec.recon[i] < -32768 * 16 * dec.blockSize /\ dec.out[i] = -32768

\* bit p (from 0) of what the encoder has written: the bytes handed to the
\* file, then the bits of the partial byte
EncBit(p) ==
    IF p < 8 * Len(enc.bs.bytes) THEN BitAt(enc.bs.bytes, p)
    ELSE enc.bs.pend[p - 8 * Len(enc.bs.bytes) + 1]

\* the unsigned value of the w bits written from bit off on
EncField(off, w) == BitsToNat([i \in 1..w |-> EncBit(off + i - 1)])

\* C9: what the encoder has written is the 136-bit header followed by one
\* record per block, a 32-bit scale factor and numCoeffs levels of quantBits
\* bits, every field at the bit where the one before it ends; a finished
\* encoder has written ceil(F / blockSize) records and padded only the end
\* of the stream, with zero bits, to a whole byte.
C9_StreamLayout ==
    (mode = "run" /\ enc.created) =>
        LET rb      == 32 + enc.numCoeffs * enc.quantBits
            nb      == enc.totalBlocks
            payload == 136 + nb * rb
            written == 8 * Len(enc.bs.bytes) + Len(enc.bs.pend)
            last    == 136 + (nb - 1) * rb
        IN  /\ EncField(0, 32) = enc.samplerate
            /\ EncField(32, 64) = enc.frames
            /\ EncField(96, 16) = enc.blockSize
            /\ EncField(112, 16) = enc.numCoeffs
            /\ EncField(128, 8) = enc.quantBits
            /\ nb > 0 =>
                  /\ EncField(last, 32) = FloatPattern(ToFloat(enc.maxCoeff))
                  /\ \A i \in 1..enc.numCoeffs :
                        EncField(last + 32 + (i - 1) * enc.quantBits, enc.quantBits)
                          = enc.levels[i]
            /\ Len(enc.wlog) = 5 + nb * (1 + enc.numCoeffs)
                                 + (IF enc.pc = "done" THEN 1 ELSE 0)
            /\ \A j \in 6..(5 + nb * (1 + enc.numCoeffs)) :
                  enc.wlog[j] = IF (j - 6) % (1 + enc.numCoeffs) = 0
                                THEN <<"scale", 32>>
                                ELSE <<"level", enc.quantBits>>
            /\ enc.pc # "done" => written = payload
            /\ enc.pc = "done" =>
                  /\ nb = CeilDiv(enc.frames, enc.blockSize)
                  /\ enc.bs.pend = <<>>
                  /\ 8 * Len(enc.bs.bytes) = 8 * CeilDiv(payload, 8)
                  /\ \A p \in payload..(written - 1) : EncBit(p) = 0

\* three records of 36 bits: 244 payload bits, padded to 31 bytes
C9_Witness ==
    /\ mode = "run" /\ enc.pc = "done"
    /\ enc.totalBlocks = 3 /\ enc.numCoeffs = 1 /\ enc.quantBits = 4
    /\ Len(enc.bs.bytes) = 31

\* C11: when the encoder has accepted a mono input and the decoder has run
\* on the encoder's whole output, the decoder has produced a 1-channel file
\* with the frame count and the sample rate of the input.
C11_MetadataPreserved ==
    (mode = "run" /\ dec.src = "encoder" /\ dec.cut = 0 /\ enc.pc = "done"
       /\ dec.pc \in {"done", "fatal"}) =>
        /\ dec.pc = "done"
        /\ dec.created
        /\ dec.outChannels = 1
        /\ dec.outRate = enc.inFile.samplerate
        /\ Len(dec.out) = enc.inFile.frames

\* the error of emitted sample i of the block decoded last: the sample minus
\* the input sample of the same frame
BlockError(i) ==
    dec.out[Len(dec.out) - Len(dec.recon) + i]
      - Signal(enc.inFile.kind, dec.framesProcessed - Len(dec.recon) + i)

\* |BlockError(i)| in units of 32 sample steps, rounded up
BlockError32(i) == (Abs(BlockError(i)) + 31) \div 32

IsLevelOf(l, c, scale, maxLevel) ==
    LET g == GCD(Abs(c + scale), Abs(scale))
        a == (c + scale) \div g
        s == scale \div g
        x == a * maxLevel + s
    IN  /\ l >= 0 /\ l <= maxLevel
        /\ \/ 2 * s * l <= x /\ x < 2 * s * (l + 1)
           \/ l = maxLevel /\ x >= 2 * s * (l + 1)
           \/ l = 0 /\ x < 0

\* C13: every level the encoder has computed for a block lies in
\* [0, 2^quantBits - 1] and is round((c / scaleFactor + 1) * maxLevel / 2)
\* clamped to that range, c being the retained coefficient and scaleFactor
\* the block's scale factor (in the encoder's runs and in the quantisation
\* path on its own).
C13_LevelRange ==
    /\ (mode = "run" /\ enc.totalBlocks > 0) =>
          /\ Len(enc.levels) = enc.numCoeffs
          /\ \A i \in 1..enc.numCoeffs :
                IsLevelOf(enc.levels[i], enc.dctCoeffs[i], enc.maxCoeff,
                          2 ^ enc.quantBits - 1)
    /\ (mode = "quant" /\ qz.pc # "coeffs") =>
          \A i \in 1..qz.numCoeffs :
              IsLevelOf(qz.levels[i], qz.dctCoeffs[i], qz.maxCoeff,
                        2 ^ qz.quantBits - 1)

\* a block of 64 coefficients of 8 bits with a level at the top of the range
\* and levels inside it
C13_Witness ==
    /\ mode = "run" /\ enc.pc = "done" /\ enc.totalBlocks > 1
    /\ enc.numCoeffs = 64 /\ enc.quantBits = 8
    /\ \E i \in 1..64 : enc.levels[i] \in {0, 255}
    /\ \E i \in 1..64 : enc.levels[i] \notin {0, 255}

\* C14: the scale factor of every block the encoder has written is the
\* largest magnitude among the retained coefficients, or 1.0 when that
\* magnitude is below the epsilon (zero here); it is strictly positive, the
\* 32 bits written for it are the float of that value, and the encoder of a
\* silent input ends without error, its scale factor 1.0.
C14_ScaleFactor ==
    (mode = "run" /\ enc.totalBlocks > 0) =>
        LET mags == { Abs(enc.dctCoeffs[i]) : i \in 1..enc.numCoeffs }
            last == 136 + (enc.totalBlocks - 1) * (32 + enc.numCoeffs * enc.quantBits)
            bits == [i \in 1..32 |-> EncBit(last + i - 1)]
        IN  /\ enc.maxCoeff > 0
            /\ \A x \in mags : x <= enc.maxCoeff
            /\ IF mags = {0} THEN enc.maxCoeff = 262144 ELSE enc.maxCoeff \in mags
            /\ bits[1] = 0
            /\ FloatValue(bits) = ToFloat(enc.maxCoeff)
            /\ FloatValue(bits) > 0
            /\ enc.pc \in {"loop", "done"}
            /\ enc.inFile.kind = "zero" => enc.maxCoeff = 262144

\* a silent input of three blocks encoded to the end, scale factor 1.0
C14_Witness ==
    /\ mode = "run" /\ enc.pc = "done" /\ enc.totalBlocks = 3
    /\ enc.inFile.kind = "zero"
    /\ \A i \in 1..enc.numCoeffs : enc.dctCoeffs[i] = 0
    /\ enc.maxCoeff = 262144

\* the names of the five header fields
HeaderNames == {"samplerate", "frames", "blockSize", "numCoeffs", "quantBits"}

\* the encoder's writes so far are in order: the five header fields first and
\* nowhere else, then for every block its scale factor followed by its
\* numCoeffs levels, and a close only as the last entry, present exactly
\* when the encoder is done
WritesInOrder ==
    LET n == Len(enc.wlog)
        k == 1 + enc.numCoeffs
    IN  /\ n >= 5
        /\ \A j \in 1..n : (enc.wlog[j][1] \in HeaderNames) = (j <= 5)
        /\ \A j \in 6..n :
              \/ enc.wlog[j][1] = "close" /\ j = n /\ (j - 6) % k = 0
              \/ enc.wlog[j][1] = "scale" /\ (j - 6) % k = 0
                   /\ j + enc.numCoeffs <= n
              \/ enc.wlog[j][1] = "level" /\ (j - 6) % k # 0
        /\ (enc.wlog[n][1] = "close") = (enc.pc = "done")
        /\ enc.bs.closed = (enc.pc = "done")
        /\ enc.pc = "done" => n = 6 + enc.totalBlocks * k

\* C15: in every run of the encoder that creates its output, the header is
\* written once and before any block record, each block's scale factor
\* before its levels, the channel is closed once, after the last record;
\* every step only appends to what was written, and after the close nothing
\* is written.
C15_WriteOrdering ==
    /\ []((mode = "run" /\ enc.created) => WritesInOrder)
    /\ [][(mode = "run" /\ enc.created) =>
            /\ Len(enc'.wlog) >= Len(enc.wlog)
            /\ SubSeq(enc'.wlog, 1, Len(enc.wlog)) = enc.wlog
            /\ Len(enc'.bs.bytes) >= Len(enc.bs.bytes)
            /\ SubSeq(enc'.bs.bytes, 1, Len(enc.bs.bytes)) = enc.bs.bytes
            /\ enc.bs.closed => (enc'.bs = enc.bs /\ enc'.wlog = enc.wlog)]_vars

\* two block records written, then the close, and the decoder has since
\* taken steps
C15_Witness ==
    /\ mode = "run" /\ enc.pc = "done" /\ enc.bs.closed
    /\ enc.totalBlocks = 2 /\ enc.numCoeffs = 2
    /\ Len(enc.wlog) = 12 /\ enc.wlog[12] = <<"close", 0>>
    /\ dec.pc = "done"

\* the frames of the input that came before the block last read, and the
\* frames readf gave for it
LastBlockStart == (enc.totalBlocks - 1) * enc.blockSize

LastBlockRead == enc.nread - LastBlockStart

\* C18: after every pass of the encoder's loop the time-domain buffer the
\* transform was applied to holds, in its first n entries, the n samples
\* read for the block, each divided by 32768, and zero in entries n to
\* blockSize - 1; the sample buffer holds the same samples and zeros, and
\* the coefficients are the transform of that buffer.
C18_ZeroPadding ==
    (mode = "run" /\ enc.pc \in {"loop", "done"} /\ enc.totalBlocks >= 1) =>
        /\ LastBlockRead >= 1 /\ LastBlockRead <= enc.blockSize
        /\ LastBlockRead < enc.blockSize => enc.nread = enc.frames
        /\ Len(enc.samples) = enc.blockSize /\ Len(enc.audioBlock) = enc.blockSize
        /\ \A i \in 1..enc.blockSize :
             IF i <= LastBlockRead
             THEN /\ enc.samples[i] = Signal(enc.inFile.kind, LastBlockStart + i)
                  /\ enc.audioBlock[i] = enc.samples[i] * (ONE \div FullScale)
             ELSE enc.samples[i] = 0 /\ enc.audioBlock[i] = 0
        /\ enc.dctCoeffs = ForwardDct(enc.audioBlock, enc.blockSize, enc.numCoeffs)

\* a third block of 22 frames read after two whole blocks of samples that
\* are not zero
C18_Witness ==
    /\ mode = "run" /\ enc.pc = "loop" /\ enc.inFile.kind = "alt"
    /\ enc.blockSize = 64 /\ enc.totalBlocks = 3 /\ LastBlockRead = 22
    /\ enc.samples[22] = -12000 /\ enc.samples[23] = 0 /\ enc.samples[64] = 0
    /\ enc.audioBlock[21] = 96000 /\ enc.audioBlock[64] = 0

\* the samples of block k of the encoder's input, padded with zeros
InputBlock(k) ==
    [i \in 1..enc.blockSize |->
        IF (k - 1) * enc.blockSize + i <= enc.frames
        THEN Signal(enc.inFile.kind, (k - 1) * enc.blockSize + i)
        ELSE 0]

\* the bits of record k (from 1) in what the encoder has written
EncRecord(k) ==
    LET rb == RecordBits(enc.numCoeffs, enc.quantBits)
    IN  [p \in 1..rb |-> EncBit(HeaderBits + (k - 1) * rb + p - 1)]

\* the record the decoder found at the place of record k of its input
DecRecord(k) ==
    ReadRecord(Advance(NewReader(dec.bs.bytes),
                       HeaderBits + (k - 1) * RecordBits(dec.numCoeffs, dec.quantBits)),
               dec.numCoeffs, dec.quantBits)

\* the samples the decoder has emitted for block k
DecEmitted(k) ==
    SubSeq(dec.out, (k - 1) * dec.blockSize + 1,
           Min(k * dec.blockSize, Len(dec.out)))

\* C19: no block depends on the blocks before it.  The record the encoder
\* has just written is the one computed from the samples of its block and
\* the header alone, and blocks of equal samples have equal records; the
\* coefficients the decoder has just transformed are zero from numCoeffs on
\* and below it the dequantised levels of the current record, the samples
\* it emitted are the ones computed from that record and the header alone,
\* and equal records of whole blocks give equal samples.
C19_BlockIndependence ==
    mode = "run" =>
      /\ (enc.pc \in {"loop", "done"} /\ enc.totalBlocks >= 1) =>
           LET k        == enc.totalBlocks
               coeffs   == ForwardDct([i \in 1..enc.blockSize |->
                                         InputBlock(k)[i] * (ONE \div FullScale)],
                                      enc.blockSize, enc.numCoeffs)
               maxCoeff == AvoidZero(MaxAbsCoeff(coeffs, enc.numCoeffs))
               levels   == BlockLevels(coeffs, enc.numCoeffs, maxCoeff,
                                       MaxLevelOf(enc.quantBits))
               rec      == EncRecord(k)
           IN  /\ enc.maxCoeff = maxCoeff /\ enc.levels = levels
               /\ BitsToNat(SubSeq(rec, 1, 32)) = FloatPattern(ToFloat(maxCoeff))
               /\ \A i \in 1..enc.numCoeffs :
                    BitsToNat(SubSeq(rec, 32 + (i - 1) * enc.quantBits + 1,
                                     32 + i * enc.quantBits)) = levels[i]
               /\ \A j \in 1..(k - 1) :
                    InputBlock(j) = InputBlock(k) => EncRecord(j) = rec
      /\ (dec.pc \in {"loop", "done"} /\ dec.totalBlocks >= 1) =>
           LET k    == dec.totalBlocks
               rec  == DecRecord(k)
               n    == Min(dec.blockSize, dec.frames - (k - 1) * dec.blockSize)
               y    == InverseDct(Unscale(dec.dctCoeffs, dec.blockSize, dec.numCoeffs),
                                  dec.blockSize)
           IN  /\ \A i \in 1..dec.blockSize :
                    /\ i > dec.numCoeffs =>
                         /\ dec.dctCoeffs[i] = 0
                         /\ Unscale(dec.dctCoeffs, dec.blockSize, dec.numCoeffs)[i] = 0
                    /\ i <= dec.numCoeffs =>
                         dec.dctCoeffs[i] = Dequant(rec.levels[i], rec.maxCoeff,
                                                    dec.maxLevel)
               /\ DecEmitted(k) = [i \in 1..n |-> ToSample(y[i], dec.blockSize)]
               /\ \A j \in 1..(k - 1) :
                    (DecRecord(j) = rec /\ n = dec.blockSize) =>
                        DecEmitted(j) = DecEmitted(k)

\* the encoder has written a third, short record after two equal ones, and
\* the decoder has decoded the second of them as it did the first
C19_Witness ==
    /\ mode = "run" /\ enc.pc = "done" /\ enc.inFile.kind = "alt"
    /\ enc.totalBlocks = 3 /\ enc.numCoeffs = 64 /\ enc.quantBits = 8
    /\ EncRecord(1) = EncRecord(2) /\ EncRecord(3) # EncRecord(2)
    /\ dec.pc = "loop" /\ dec.totalBlocks = 2
    /\ DecRecord(1) = DecRecord(2) /\ DecEmitted(1) = DecEmitted(2)

\* C20: once the encoder has accepted its options and computed numCoeffs,
\* 1 <= numCoeffs <= blockSize and numCoeffs < 2^16; numCoeffs is the
\* product blockSize * keepFraction cut toward zero whenever that lies in
\* 1..blockSize, and 1 when the product is below 1; the 16-bit field of the
\* header holds numCoeffs itself and the decoder reads it back.
C20_NumCoeffsRange ==
    (mode = "run" /\ enc.pc \in {"create", "loop", "done"}) =>
        LET n == (enc.blockSize * enc.fracNum) \div enc.fracDen
        IN  /\ enc.blockSize >= MinBlockSize /\ enc.blockSize <= MaxBlockSize
            /\ enc.fracNum > 0 /\ enc.fracNum <= enc.fracDen
            /\ enc.numCoeffs >= 1 /\ enc.numCoeffs <= enc.blockSize
            /\ enc.numCoeffs < Pow2(16)
            /\ n <= enc.blockSize
            /\ enc.numCoeffs \in {ClampCoeffs(v, enc.blockSize) :
                                    v \in ProductValues(enc.blockSize, enc.fracNum,
                                                        enc.fracDen)}
            /\ n < 1 => enc.numCoeffs = 1
            /\ n >= 1 => enc.numCoeffs \in {n - 1, n}
            /\ enc.created => EncField(112, 16) = enc.numCoeffs
            /\ (dec.src = "encoder" /\ dec.cut = 0
                  /\ dec.pc \in {"validate", "create", "loop", "done"}) =>
                    dec.numCoeffs = enc.numCoeffs

\* the largest block with every coefficient kept: 8192 in the 16-bit field
\* of the header, read back by the decoder
C20_Witness ==
    /\ mode = "run" /\ enc.pc = "done" /\ dec.pc = "done"
    /\ enc.blockSize = MaxBlockSize /\ enc.fracNum = enc.fracDen
    /\ enc.numCoeffs = MaxBlockSize /\ EncField(112, 16) = MaxBlockSize
    /\ dec.numCoeffs = MaxBlockSize

\* the encoder has created its output from the default options: block size
\* 1024, keep fraction 0.2, 8 bits per level
DefaultsEncoded ==
    /\ mode = "run" /\ enc.created
    /\ enc.blockSize = DefaultBlockSize
    /\ enc.fracNum = DefaultFracNum /\ enc.fracDen = DefaultFracDen
    /\ enc.quantBits = DefaultQuantBits

\* C21 as stated: encoding with blockSize = 1024, keep fraction 0.2 and
\* quantBits = 8 writes numCoeffs = 205 in the header.
C21_DefaultCoeffs205 == DefaultsEncoded => EncField(112, 16) = 205

\* C21 as amended: encoding with blockSize = 1024, keep fraction 0.2 and
\* quantBits = 8 writes numCoeffs = 204 in the header (1024 * 0.2 = 204.8 cut
\* toward zero), with blockSize 1024 and quantBits 8 in their fields, and
\* the decoder reads 204 back.
C21_DefaultCoeffs204 ==
    DefaultsEncoded =>
        /\ enc.numCoeffs = 204
        /\ EncField(96, 16) = 1024
        /\ EncField(112, 16) = 204
        /\ EncField(128, 8) = 8
        /\ (dec.src = "encoder" /\ dec.cut = 0
              /\ dec.pc \in {"validate", "create", "loop", "done"}) =>
                dec.numCoeffs = 204

\* the default options on a 44100 Hz input, encoded and read by the decoder
C21_Witness ==
    /\ DefaultsEncoded /\ enc.pc = "done" /\ enc.samplerate = 44100
    /\ EncField(112, 16) = 204
    /\ dec.pc = "done" /\ dec.numCoeffs = 204

\* the decoder holds the levels and the coefficients of a block it has read
BlockDequantized ==
    mode = "run" /\ dec.pc \in {"loop", "done"} /\ dec.totalBlocks > 0

\* what C22 says of the levels and of the formula: every level read is in
\* 0..maxLevel; the coefficient is (level * 2 / maxLevel - 1) * scaleFactor
\* to within half a unit of the grid; level 0 gives -scaleFactor and level
\* maxLevel gives +scaleFactor exactly; for scaleFactor > 0 a higher level
\* never gives a lower coefficient, and gives a higher one where the
\* quantisation step 2 * scaleFactor / maxLevel is at least one grid unit
DequantFormula ==
    LET maxLevel == Pow2(dec.quantBits) - 1
        scale    == dec.maxCoeff
    IN  /\ Len(dec.levels) = dec.numCoeffs
        /\ \A i \in 1..dec.numCoeffs :
              LET level == dec.levels[i]
                  c     == dec.dctCoeffs[i]
              IN  /\ level >= 0 /\ level <= maxLevel
                  /\ 2 * Abs(c * maxLevel - (2 * level - maxLevel) * scale)
                       <= maxLevel
                  /\ level = 0 => c = -scale
                  /\ level = maxLevel => c = scale
        /\ scale > 0 =>
              \A i, j \in 1..dec.numCoeffs :
                  dec.levels[i] < dec.levels[j] =>
                      /\ dec.dctCoeffs[i] <= dec.dctCoeffs[j]
                      /\ 2 * scale >= maxLevel => dec.dctCoeffs[i] < dec.dctCoeffs[j]

C23_MonoOnly ==
    mode = "run" =>
        /\ (enc.pc # "idle" /\ enc.inFile.channels # 1) =>
              /\ enc.pc \in {"args", "open", "fatal"}
              /\ ~enc.created
              /\ enc.bs = NewWriter /\ enc.wlog = <<>>
              /\ enc.totalBlocks = 0
              /\ (enc.pc = "fatal" /\ enc.opened /\ enc.inFile.wav
                    /\ enc.inFile.pcm16) => enc.err = "channels"
              /\ dec.src = "encoder" => (dec.pc = "start" /\ ~dec.created)
        /\ enc.created => enc.inFile.channels = 1
        /\ dec.created => dec.outChannels = 1

\* a stereo 16-bit WAV input of 65 frames refused by the encoder
C23_Witness ==
    /\ mode = "run" /\ enc.pc = "fatal" /\ enc.err = "channels"
    /\ enc.inFile.channels = 2 /\ enc.inFile.frames = 65
    /\ enc.opened /\ ~enc.created /\ enc.bs = NewWriter

\* C24: the header of every stream a finished encoder has produced satisfies
\* what the decoder validates (1000 <= sampleRate <= 192000, 64 <= blockSize
\* <= 8192, 1 <= numCoeffs <= blockSize, 4 <= quantBits <= 16), whatever the
\* sample rate of the input, and the decoder given the whole stream does
\* not reject it.
C24_EncoderDecoderCompatible ==
    (mode = "run" /\ enc.pc = "done") =>
        /\ EncField(0, 32) >= 1000 /\ EncField(0, 32) <= 192000
        /\ EncField(96, 16) >= 64 /\ EncField(96, 16) <= 8192
        /\ EncField(112, 16) >= 1 /\ EncField(112, 16) <= EncField(96, 16)
        /\ EncField(128, 8) >= 4 /\ EncField(128, 8) <= 16
        /\ (dec.src = "encoder" /\ dec.cut = 0) => dec.pc # "fatal"

\* what C25 says of one block: coeffs the retained coefficients, levels their
\* levels, scale the block's scale factor.  Every coefficient has |c / scale|
\* <= 1; its level is round((c / scale + 1) * maxLevel / 2) itself, a number
\* of 0..maxLevel without the clamp; where the largest magnitude is not
\* below the epsilon (not zero here), a coefficient of that magnitude has
\* level maxLevel if positive and level 0 if negative
ExtremeLevels(coeffs, levels, scale, maxLevel) ==
    LET n    == Len(levels)
        mags == { Abs(coeffs[i]) : i \in 1..n }
    IN  /\ scale > 0
        /\ \A i \in 1..n :
              LET c == coeffs[i]
                  l == levels[i]
                  g == GCD(Abs(c + scale), scale)
                  a == (c + scale) \div g
                  s == scale \div g
                  x == a * maxLevel + s
              IN  /\ Abs(c) <= scale
                  /\ x >= 0 /\ (a - 2 * s) * maxLevel < s
                  /\ 2 * s * l <= x /\ x - 2 * s * l < 2 * s
                  /\ l >= 0 /\ l <= maxLevel
                  /\ (c # 0 /\ \A y \in mags : y <= Abs(c)) =>
                        /\ scale = Abs(c)
                        /\ c > 0 => l = maxLevel
                        /\ c < 0 => l = 0

\* C25: in every block the encoder has quantised (in its runs and in the
\* quantisation path on its own) every retained coefficient satisfies
\* |c / scaleFactor| <= 1, the clamp to [0, maxLevel] changes no computed
\* level, and, when the block's largest retained magnitude is at least the
\* epsilon, the coefficient of greatest magnitude has level maxLevel if it is
\* positive and level 0 if it is negative.
C25_ExtremeLevels ==
    /\ (mode = "run" /\ enc.totalBlocks > 0) =>
          /\ Len(enc.levels) = enc.numCoeffs
          /\ ExtremeLevels(enc.dctCoeffs, enc.levels, enc.maxCoeff,
                           Pow2(enc.quantBits) - 1)
    /\ (mode = "quant" /\ qz.pc # "coeffs") =>
          /\ Len(qz.levels) = qz.numCoeffs
          /\ ExtremeLevels(qz.dctCoeffs, qz.levels, qz.maxCoeff,
                           Pow2(qz.quantBits) - 1)

\* a block of the constant input -32768 with 64 coefficients of 8 bits: the
\* first coefficient is the negative one of greatest magnitude, at level 0
C25_Witness ==
    /\ mode = "run" /\ enc.totalBlocks > 0 /\ enc.inFile.kind = "min"
    /\ enc.numCoeffs = 64 /\ enc.quantBits = 8
    /\ enc.dctCoeffs[1] < 0 /\ enc.maxCoeff = -enc.dctCoeffs[1]
    /\ enc.levels[1] = 0
    /\ \E i \in 2..64 : Abs(enc.dctCoeffs[i]) < enc.maxCoeff /\ enc.levels[i] > 0

\* C26: in every block the encoder has quantised (in its runs and in the
\* quantisation path on its own), whatever quantBits in 4..16, a retained
\* coefficient of value zero has level 2^(quantBits - 1); for an all-zero
\* block every one of the numCoeffs levels written to the stream is
\* 2^(quantBits - 1) and the scale factor written is the float 1.0.
C26_ZeroLevel ==
    /\ (mode = "run" /\ enc.totalBlocks > 0) =>
          LET half == 2 ^ (enc.quantBits - 1)
              rb   == 32 + enc.numCoeffs * enc.quantBits
              last == 136 + (enc.totalBlocks - 1) * rb
          IN  /\ enc.quantBits >= 4 /\ enc.quantBits <= 16
              /\ \A i \in 1..enc.numCoeffs :
                    enc.dctCoeffs[i] = 0 => enc.levels[i] = half
              /\ (\A i \in 1..enc.numCoeffs : enc.dctCoeffs[i] = 0) =>
                    /\ EncField(last, 32) = 1065353216
                    /\ \A i \in 1..enc.numCoeffs :
                          EncField(last + 32 + (i - 1) * enc.quantBits,
                                   enc.quantBits) = half
    /\ (mode = "quant" /\ qz.pc # "coeffs") =>
          \A i \in 1..qz.numCoeffs :
              qz.dctCoeffs[i] = 0 => qz.levels[i] = 2 ^ (qz.quantBits - 1)

\* two silent blocks encoded with 16 bits per level: 64 levels of 32768 and
\* the pattern of 1.0 in the second record
C26_Witness ==
    /\ mode = "run" /\ enc.pc = "done" /\ enc.totalBlocks = 2
    /\ enc.quantBits = 16 /\ enc.numCoeffs = 64
    /\ \A i \in 1..64 : enc.dctCoeffs[i] = 0 /\ enc.levels[i] = 32768
    /\ EncField(136 + 32 + 64 * 16, 32) = 1065353216
    /\ EncField(136 + 32 + 64 * 16 + 32 + 63 * 16, 16) = 32768

---------------------------------------------------------------------------
(* Property of the bit channel (specification SpecBits)                    *)

\* C10: the values read back with the widths they were written with are the
\* values written, in order, whatever the total width; no read fails.
C10_BitChannelRoundTrip ==
    mode = "bits" =>
        /\ chan.pc # "fatal"
        /\ Len(chan.got) <= Len(chan.pairs)
        /\ \A k \in 1..Len(chan.got) : chan.got[k] = chan.pairs[k][1]
        /\ chan.pc = "done" => Len(chan.got) = Len(chan.pairs)

\* three values of 3, 64 and 13 bits read back: 80 bits, the last byte padded
C10_Witness ==
    /\ mode = "bits" /\ chan.pc = "done"
    /\ chan.pairs = << <<5, 3>>, <<2147483647, 64>>, <<4660, 13>> >>
    /\ chan.got = <<5, 2147483647, 4660>>
    /\ Len(chan.w.bytes) = 10

---------------------------------------------------------------------------
(* Property of wav_quant_enc and wav_quant_dec (specification SpecWire)    *)

\* bit p (from 0) of what wav_quant_enc has written
QencBit(p) ==
    IF p < 8 * Len(qenc.bs.bytes) THEN BitAt(qenc.bs.bytes, p)
    ELSE qenc.bs.pend[p - 8 * Len(qenc.bs.bytes) + 1]

\* the unsigned value of the w bits written from bit off on
QencField(off, w) == BitsToNat([i \in 1..w |-> QencBit(off + i - 1)])

\* the level of sample i (from 1, interleaved) of the encoder's input
InputLevel(i) == quantizeToLevel(QSample(qenc.inFile.kind, i), qenc.bits)

\* C16: wav_quant_enc writes channels(16), samplerate(32), frames(64),
\* bits(8) and then one level of `bits` bits for every sample of every frame,
\* nothing else but the zero padding of the last byte (the levels are
\* compared up to the decoder's first step, which reads these very bytes and
\* leaves them as they are); wav_quant_dec reads
\* the four fields back with their values and, when it accepts them, reads
\* frames * channels levels of `bits` bits, at most one buffer of frames at a
\* time, and writes exactly `frames` frames, each sample the reconstruction
\* of its level.
C16_QuantWireFormat ==
    mode = "wire" =>
        /\ qenc.created =>
             LET f       == qenc.inFile
                 written == 8 * Len(qenc.bs.bytes) + Len(qenc.bs.pend)
                 payload == 120 + qenc.nlevels * qenc.bits
             IN  /\ QencField(0, 16) = f.channels
                 /\ QencField(16, 32) = f.samplerate
                 /\ QencField(48, 32) = 0
                 /\ QencField(80, 32) = f.frames
                 /\ QencField(112, 8) = qenc.bits
                 /\ qenc.nlevels = qenc.pos * f.channels
                 /\ qenc.pos <= f.frames
                 /\ qdec.pc = "open" =>
                      \A k \in 1..qenc.nlevels :
                         QencField(120 + (k - 1) * qenc.bits, qenc.bits) = InputLevel(k)
                 /\ qenc.pc = "loop" => written = payload
                 /\ qenc.pc = "done" =>
                      /\ qenc.pos = f.frames
                      /\ written = 8 * CeilDiv(payload, 8)
                      /\ \A p \in payload..(written - 1) : QencBit(p) = 0
        /\ qdec.pc \notin {"idle", "open"} =>
             /\ qenc.pc = "done" /\ qdec.bs.bytes = qenc.bs.bytes
             /\ qdec.channels = qenc.inFile.channels
             /\ qdec.samplerate = qenc.inFile.samplerate
             /\ qdec.frames = qenc.inFile.frames
             /\ qdec.bits = qenc.bits
        /\ qdec.created =>
             /\ qdec.outChannels = qdec.channels
             /\ qdec.framesWritten + qdec.framesToRead = qdec.frames
             /\ qdec.framesToRead >= 0
             /\ qdec.nlevels = qdec.framesWritten * qdec.channels
             /\ qdec.bs.pos = 120 + qdec.nlevels * qdec.bits
             /\ qdec.bs.pos <= 8 * Len(qdec.bs.bytes)
             /\ qdec.pc = "done" => qdec.nlevels = qenc.nlevels
             /\ qdec.nFrames <= FRAMES_BUFFER_SIZE
             /\ qdec.nFrames <= qdec.framesWritten
             /\ Len(qdec.samples) = qdec.nFrames * qdec.channels
             /\ \A i \in 1..(qdec.nFrames * qdec.channels) :
                  qdec.samples[i] =
                      levelToSample(
                        InputLevel((qdec.framesWritten - qdec.nFrames) * qdec.channels + i),
                        qdec.bits)
             /\ qdec.pc = "done" => qdec.framesWritten = qenc.inFile.frames
        /\ (qenc.pc = "done" /\ qdec.pc = "fatal") =>
             \/ qdec.err = "create"
             \/ QuantHeaderError(qenc.inFile @@ [bits |-> qenc.bits]) # "none"

\* an input of one frame more than the buffer holds, decoded in two steps
\* of 65536 frames and 1 frame
C16_Witness ==
    /\ mode = "wire" /\ qdec.pc = "done"
    /\ qdec.channels = 1 /\ qdec.bits = 1 /\ qdec.frames = FRAMES_BUFFER_SIZE + 1
    /\ qdec.framesWritten = FRAMES_BUFFER_SIZE + 1
    /\ Len(qdec.samples) = 1
    /\ Len(qenc.bs.bytes) = 15 + (FRAMES_BUFFER_SIZE + 8) \div 8

---------------------------------------------------------------------------
(* Property of wav_cmp (specification SpecCmp)                             *)

\* C17: files of different frame counts are compared over the shorter one:
\* in every iteration both files have been read to the same frame, every
\* pair compared is the two files' samples of one frame and one channel,
\* counted for that channel, and at the end every channel has counted
\* min(frames of the original, frames of the processed file) samples; the
\* warning is given exactly when the frame counts differ.
C17_ShorterLength ==
    (mode = "cmp" /\ cmp.pc \in {"loop", "done"}) =>
        LET shorter == Min(cmp.orig.frames, cmp.proc.frames)
        IN  /\ cmp.warned = (cmp.orig.frames # cmp.proc.frames)
            /\ cmp.mispaired = 0
            /\ cmp.totalFramesProcessed <= shorter
            /\ \A ch \in 1..cmp.numChannels :
                 cmp.numSamples[ch] = cmp.totalFramesProcessed
            /\ cmp.pc = "loop" =>
                 \/ cmp.posOrig = cmp.posProc
                      /\ cmp.posOrig = cmp.totalFramesProcessed
                 \/ cmp.totalFramesProcessed = shorter
            /\ cmp.pc = "done" => cmp.totalFramesProcessed = shorter

\* a two-channel original of 131077 frames against a processed file of 65537
\* frames: two iterations, the second of one frame
C17_Witness ==
    /\ mode = "cmp" /\ cmp.pc = "done" /\ cmp.warned
    /\ cmp.orig.frames = 2 * FRAMES_BUFFER_SIZE + 5
    /\ cmp.proc.frames = FRAMES_BUFFER_SIZE + 1
    /\ cmp.iterations = 2
    /\ cmp.numSamples = <<FRAMES_BUFFER_SIZE + 1, FRAMES_BUFFER_SIZE + 1>>

---------------------------------------------------------------------------
(* Properties of the scalar quantiser functions (specification SpecScalar) *)

\* C27: for every 16-bit sample and every depth of 1..16 bits the level of
\* quantizeToLevel is in [0, 2^bits - 1] and quantizeUniform of wav_quant
\* returns what levelToSample returns for that level; with 16 bits the
\* level is sample + 32768 and both return the sample itself.
C27_InPlaceEqualsCodec ==
    (mode = "scalar" /\ sq.kind = "sample") =>
        /\ sq.bits >= 1 /\ sq.bits <= 16
        /\ sq.sample >= -32768 /\ sq.sample <= 32767
        /\ (sq.pc # "sample" /\ sq.bits = 16) => sq.quantized = sq.sample
        /\ sq.pc \in {"level", "decoded", "done"} =>
              /\ sq.level >= 0 /\ sq.level <= 2 ^ sq.bits - 1
              /\ sq.bits = 16 => sq.level = sq.sample + 32768
        /\ sq.pc \in {"decoded", "done"} =>
              /\ sq.quantized = sq.decoded
              /\ sq.bits = 16 => sq.decoded = sq.sample

\* the sample 25 with 3 bits: level 4, and -32768 + 4 * 65535 / 7 cut to
\* 4680 by both
C27_Witness ==
    /\ mode = "scalar" /\ sq.pc = "decoded" /\ sq.kind = "sample"
    /\ sq.sample = 25 /\ sq.bits = 3
    /\ sq.level = 4 /\ sq.decoded = 4680 /\ sq.quantized = 4680

\* C28: for every depth of 1..16 bits and every level l of [0, 2^bits - 1],
\* levelToSample(l, bits) lies in [-32768, 32767] and quantizeToLevel of it,
\* with the same depth, is l again; the same holds of the level of any
\* sample, so that encoding a decoded sample again gives the level it was
\* decoded from.
C28_LevelRoundTrip ==
    mode = "scalar" =>
        /\ sq.bits >= 1 /\ sq.bits <= 16
        /\ sq.kind = "level" => (sq.level >= 0 /\ sq.level <= 2 ^ sq.bits - 1)
        /\ sq.pc \in {"decoded", "done"} =>
              sq.decoded >= -32768 /\ sq.decoded <= 32767
        /\ sq.pc = "done" => sq.relevel = sq.level

\* the highest level of 3 bits: -32768 + 7 * (65535 / 7) is 32767, whose
\* level is 7
C28_Witness ==
    /\ mode = "scalar" /\ sq.pc = "done" /\ sq.kind = "level"
    /\ sq.bits = 3 /\ sq.level = 7
    /\ sq.decoded = 32767 /\ sq.relevel = 7

---------------------------------------------------------------------------
(* Property of wav_effects (specification SpecFx)                          *)

\* the delay of echo i in samples, and the audio the file gave
EchoDelay(i) == DelaySamplesOf(fx.delaysMs[i], fx.file.samplerate)

LoadedSample(frame, ch) ==
    FxSample(fx.file.kind, frame * fx.file.channels + ch + 1)

\* C29: after applyMultipleEchoes with as many feedbacks as delays, the
\* number of frames is what it was and the sample of frame f and channel c
\* is clamp16(x[f] + the sum, over every echo i whose delay d_i is below
\* numFrames and at most f, of fb_i * x[f - d_i]), x being the audio before
\* the call: each delay with its own feedback, also when delays of
\* numFrames or more are skipped.
C29_EchoPairing ==
    (mode = "fx" /\ fx.pc \in {"applied", "saved"}
       /\ Len(fx.delaysMs) = Len(fx.feedbacks)) =>
        /\ fx.numFrames = fx.file.frames
        /\ Len(fx.audioData) = fx.file.frames * fx.file.channels
        /\ \A f \in 0..(fx.file.frames - 1) : \A c \in 0..(fx.file.channels - 1) :
              fx.audioData[f * fx.file.channels + c + 1] =
                clamp16(FbDen * LoadedSample(f, c)
                          + SumRange([i \in 1..Len(fx.delaysMs) |->
                                        IF EchoDelay(i) < fx.file.frames
                                             /\ f >= EchoDelay(i)
                                        THEN fx.feedbacks[i]
                                               * LoadedSample(f - EchoDelay(i), c)
                                        ELSE 0],
                                     1, Len(fx.delaysMs)))

---------------------------------------------------------------------------
(* Property of wav_hist (specification SpecHist)                           *)

\* the value each frame of the file adds to the histogram asked for
HistValueOf(frame) ==
    IF hist.channel < hist.file.channels THEN frame[hist.channel + 1]
    ELSE IF hist.channel = hist.file.channels
    THEN CDiv(frame[1] + frame[2], 2)
    ELSE CDiv(frame[1] - frame[2], 2)

HistReported ==
    /\ mode = "hist" /\ hist.pc \in {"dumped", "filed"}
    /\ hist.err = "none"
    /\ hist.binSize > 1

\* C30: with binSize > 1 the keys that dump and dumpToFile report are
\* multiples of binSize, the count of bin b is the number of frames whose
\* value v has b <= v < b + binSize, negative values as the others, and
\* the reported counts add up to the number of frames given to update.
C30_Rebinning ==
    HistReported =>
        /\ \A i \in 1..Len(hist.out) :
              LET b == hist.out[i][1]
              IN  /\ b % hist.binSize = 0
                  /\ hist.out[i][2] =
                        Cardinality({ f \in 1..Len(hist.file.frames) :
                                        /\ b <= HistValueOf(hist.file.frames[f])
                                        /\ HistValueOf(hist.file.frames[f])
                                             < b + hist.binSize })
        /\ SumRange([i \in 1..Len(hist.out) |-> hist.out[i][2]], 1, Len(hist.out))
             = Len(hist.file.frames)

=========================================================================
